---- MODULE Spec2Model ----
(***************************************************************************)
(* Forecast-error scoring and reconciliation pipeline of KalshicastData.   *)
(*                                                                         *)
(* The persistence layer (db.py) is modelled as a set of tables; every     *)
(* SQL statement is one atomic step on the committed tables, and a         *)
(* transaction that holds uncommitted rows keeps them in a per-connection  *)
(* pending set until its commit.  Temperatures are fixed-point numbers in  *)
(* tenths of a degree Fahrenheit (29.4 F is 294); timestamps are integers. *)
(***************************************************************************)
EXTENDS Integers, Sequences, FiniteSets, Bags, TLC

\* SQL NULL / Python None for the nullable columns and arguments.
NULL == -9999

\* ------------------------------------------------------------------ bounds
NumProcs == 2
MaxClock == 1
MaxRunCalls == 3
MaxObsCalls == 2
MaxFcWrites == 2
MaxBuilds == 2

Procs == 1..NumProcs

\* ------------------------------------------------------------- value domains
Stations    == {"KMDW", "KNYC"}
Dates       == {20260130, 20260131}
RunSources  == {"NWS", "OME_BASE"}
IssuedAts   == {1, 2}
Kinds       == {"high", "low"}

VARIABLES
    clock,             \* now() / utc_now_z(), in ticks
    schema,            \* which optional tables exist (to_regclass probes)
    run_seq,           \* sequence behind forecast_runs.run_id
    forecast_runs,     \* committed rows of public.forecast_runs
    fr_pending,        \* per connection: inserted, not yet committed run rows
    obs_seq,           \* sequence behind observation_runs.run_id
    observation_runs,  \* public.observation_runs
    observations_v2,   \* public.observations_v2 (snapshot schema)
    observations,      \* public.observations (legacy single-row schema)
    obs_run_issued_at, \* per process: module global _OBS_RUN_ISSUED_AT
    forecasts_daily,   \* public.forecasts_daily
    forecasts,         \* public.forecasts (legacy two-row format)
    forecast_errors,   \* public.forecast_errors, a bag of rows
    error_stats,       \* public.error_stats
    locations,         \* public.locations
    forecast_extras_hourly, \* public.forecast_extras_hourly
    forecast_revisions,     \* public.forecast_revisions
    tasks,             \* morning.main: the futures of the submitted tasks
    main,              \* morning.main: position and tally of the write loop
    executor,          \* morning.main's ThreadPoolExecutor: its work queue and
                       \* what each busy worker thread is doing
    provider_limits,   \* morning._PROVIDER_LIMITS: permits left per semaphore
    pc,                \* per process: position inside the running call
    loc,               \* per process: arguments and locals of the running call
    ret,               \* per process: the last completed call, its result and
                       \* the statement it ended with
    calls              \* calls started so far, per operation (bounds the
                       \* exploration)

vars == << clock, schema, run_seq, forecast_runs, fr_pending, obs_seq,
           observation_runs, observations_v2, observations, obs_run_issued_at,
           forecasts_daily, forecasts, forecast_errors, error_stats,
           locations, forecast_extras_hourly, forecast_revisions, tasks, main,
           executor, provider_limits, pc, loc, ret, calls >>

dbRunVars == << run_seq, forecast_runs, fr_pending >>
dbObsVars == << obs_seq, observation_runs, observations_v2, observations,
                obs_run_issued_at >>
dbFcVars  == << forecasts_daily, forecasts >>
poolVars  == << executor, provider_limits >>
extVars   == << locations, forecast_extras_hourly, forecast_revisions, tasks,
                main, poolVars >>

NoCall == [op |-> "none"]

\* ------------------------------------------------------------------ Init
\* No location, hourly or revision row yet.
InitExt ==
    /\ locations = {}
    /\ forecast_extras_hourly = {}
    /\ forecast_revisions = {}

\* _PROVIDER_LIMITS as the module is imported: one semaphore per provider key
\* with its initial count; a key outside the domain has no semaphore.
PROVIDER_LIMITS == [TOM |-> 1, WAPI |-> 2, VCR |-> 2, NWS |-> 4, OME |-> 3]

\* The executor before main creates it: nothing submitted, no thread busy.
NoExecutor == [queue |-> << >>, next |-> 0, workers |-> EmptyBag, done |-> 0]

\* morning.main is not running: no task submitted.
NoMorningRun ==
    /\ tasks = << >>
    /\ main = [pc |-> "none"]
    /\ executor = NoExecutor
    /\ provider_limits = PROVIDER_LIMITS

InitTables(has_new, has_latest, has_daily) ==
    /\ clock = 0
    /\ schema = [has_new |-> has_new, has_latest |-> has_latest,
                 has_daily |-> has_daily]
    /\ run_seq = 0
    /\ forecast_runs = {}
    /\ fr_pending = [p \in Procs |-> {}]
    /\ obs_seq = 0
    /\ observation_runs = {}
    /\ observations_v2 = {}
    /\ observations = {}
    /\ obs_run_issued_at = [p \in Procs |-> NULL]
    /\ forecasts_daily = {}
    /\ forecasts = {}
    /\ forecast_errors = EmptyBag
    /\ error_stats = {}
    /\ InitExt
    /\ pc = [p \in Procs |-> "idle"]
    /\ loc = [p \in Procs |-> NoCall]
    /\ ret = [p \in Procs |-> NoCall]
    /\ calls = [run |-> 0, obs |-> 0, fc |-> 0, build |-> 0, stats |-> 0]

InitDb(has_new, has_latest, has_daily) ==
    /\ InitTables(has_new, has_latest, has_daily)
    /\ NoMorningRun

\* ------------------------------------------------------- forecast run registry
\* Rows the unique index on (source, issued_at) reports as conflicting.
NoConflictRuns(rows, source, issued_at) == {}

ConflictRuns(rows, source, issued_at) ==
    {r \in rows : r.source = source /\ r.issued_at = issued_at}

\* The unique index also sees the uncommitted rows of other connections: the
\* statement waits for their commit.
RunKeyBusy(p, source, issued_at) ==
    \E q \in Procs \ {p} :
        ConflictRuns(fr_pending[q], source, issued_at) # {}

\* insert ... on conflict (source, issued_at) do update ... returning run_id
GetOrCreateRunExec(p, source, issued_at) ==
    /\ pc[p] = "idle"
    /\ calls.run < MaxRunCalls
    /\ ~RunKeyBusy(p, source, issued_at)
    /\ LET hit == ConflictRuns(forecast_runs \cup fr_pending[p], source, issued_at)
       IN  IF hit # {}
           THEN /\ loc' = [loc EXCEPT ![p] =
                       [op |-> "get_or_create_forecast_run", source |-> source,
                        issued_at |-> issued_at,
                        run_id |-> (CHOOSE r \in hit : TRUE).run_id]]
                /\ UNCHANGED << run_seq, fr_pending, poolVars >>
           ELSE /\ run_seq' = run_seq + 1
                /\ fr_pending' = [fr_pending EXCEPT ![p] = @ \cup
                       {[run_id |-> run_seq + 1, source |-> source,
                         issued_at |-> issued_at]}]
                /\ loc' = [loc EXCEPT ![p] =
                       [op |-> "get_or_create_forecast_run", source |-> source,
                        issued_at |-> issued_at, run_id |-> run_seq + 1]]
    /\ pc' = [pc EXCEPT ![p] = "run_commit"]
    /\ calls' = [calls EXCEPT !.run = @ + 1]
    /\ UNCHANGED << extVars, clock, schema, forecast_runs, dbObsVars, dbFcVars,
                    forecast_errors, error_stats, ret >>

\* owns: conn.commit(); return run_id; conn.close()
GetOrCreateRunCommit(p) ==
    /\ pc[p] = "run_commit"
    /\ forecast_runs' = forecast_runs \cup fr_pending[p]
    /\ fr_pending' = [fr_pending EXCEPT ![p] = {}]
    /\ ret' = [ret EXCEPT ![p] = loc[p]]
    /\ loc' = [loc EXCEPT ![p] = NoCall]
    /\ pc' = [pc EXCEPT ![p] = "idle"]
    /\ UNCHANGED << extVars, clock, schema, run_seq, dbObsVars, dbFcVars,
                    forecast_errors, error_stats, calls >>

InitRuns == InitDb(FALSE, FALSE, TRUE)

NextRuns ==
    \E p \in Procs :
        \/ \E s \in RunSources, t \in IssuedAts : GetOrCreateRunExec(p, s, t)
        \/ GetOrCreateRunCommit(p)

SpecRuns == InitRuns /\ [][NextRuns]_vars

\* C1: any number of get_or_create_forecast_run(s, t) calls, sequential or
\* interleaved, return the same run_id, and forecast_runs holds exactly one
\* row with (source, issued_at) = (s, t) afterwards.
RunRegistryIdempotent ==
    /\ \A p \in Procs :
          ret[p].op = "get_or_create_forecast_run" =>
              LET rows == {r \in forecast_runs : r.source = ret[p].source
                                               /\ r.issued_at = ret[p].issued_at}
              IN  /\ Cardinality(rows) = 1
                  /\ \A r \in rows : r.run_id = ret[p].run_id
    /\ \A p, q \in Procs :
          ( /\ ret[p].op = "get_or_create_forecast_run"
            /\ ret[q].op = "get_or_create_forecast_run"
            /\ ret[p].source = ret[q].source
            /\ ret[p].issued_at = ret[q].issued_at )
          => ret[p].run_id = ret[q].run_id

\* Two different processes have both completed a call for the same key.
RunRegistryWitness ==
    \E p, q \in Procs :
        /\ p # q
        /\ ret[p].op = "get_or_create_forecast_run"
        /\ ret[q].op = "get_or_create_forecast_run"
        /\ ret[p].source = ret[q].source
        /\ ret[p].issued_at = ret[q].issued_at
        /\ ret[p].run_id = ret[q].run_id

\* ------------------------------------------------------------- observations
ObsSources == {"NWS_CLI", "NWS_OBS_FALLBACK", "MANUAL"}
\* (observed_high, observed_low, issued_at, raw_text): a report that carries no
\* product text, and one that carries the text and its issuance time.
ObsPayloads == {<<294, 171, NULL, NULL>>, <<301, 180, 5, 7>>}
ObsDates   == {20260131}

\* String-typed None: the value of existing_source when the select finds no row.
NONE == "None"

\* _OBS_SOURCE_PRIORITY.get(source, 0)
FlatObsPriority(source) == 0

ObsPriority(source) ==
    CASE source \in {"NWS_CLI", "nws_cli"} -> 100
      [] source \in {"NWS_OBS_FALLBACK", "nws_station_obs"} -> 10
      [] OTHER -> 0

\* coalesce(excluded.x, table.x)
Coalesce(new, old) == IF new # NULL THEN new ELSE old

ObsRowsAt(rows, station_id, date) ==
    {r \in rows : r.station_id = station_id /\ r.date = date}

\* select source from public.observations where station_id=%s and date=%s
\* row = cur.fetchone(); existing_source = row[0] if row else None
SelectExistingSource(station_id, date) ==
    LET hit == ObsRowsAt(observations, station_id, date)
    IN  IF hit = {} THEN NONE ELSE (CHOOSE r \in hit : TRUE).source

\* (a) also a source of equal authority is turned away; (b) the missing row is
\* taken for a stored one of the highest authority.
DowngradeOrEqual(existing_source, source) ==
    /\ existing_source # NONE
    /\ ObsPriority(source) <= ObsPriority(existing_source)

DowngradeOrMissing(existing_source, source) ==
    \/ existing_source = NONE
    \/ ObsPriority(source) < ObsPriority(existing_source)

\* existing_source is not None
\*     and _obs_priority(source) < _obs_priority(str(existing_source))
IsDowngrade(existing_source, source) ==
    /\ existing_source # NONE
    /\ ObsPriority(source) < ObsPriority(existing_source)

\* update public.observations set fetched_at = now() where station_id, date
TouchObservation(rows, a) ==
    {IF r.station_id = a.station_id /\ r.date = a.date
     THEN [r EXCEPT !.fetched_at = a.now] ELSE r : r \in rows}

\* insert into public.observations ... on conflict (station_id, date) do update
InsertObservation(rows, a) ==
    LET hit == ObsRowsAt(rows, a.station_id, a.date)
    IN  IF hit = {}
        THEN rows \cup {[station_id |-> a.station_id, date |-> a.date,
                         observed_high |-> a.observed_high,
                         observed_low |-> a.observed_low,
                         issued_at |-> a.issued_at, fetched_at |-> a.now,
                         raw_text |-> a.raw_text, source |-> a.source]}
        ELSE (rows \ hit) \cup
             {[r EXCEPT !.observed_high = a.observed_high,
                        !.observed_low = a.observed_low,
                        !.issued_at = Coalesce(a.issued_at, r.issued_at),
                        !.fetched_at = a.now,
                        !.raw_text = Coalesce(a.raw_text, r.raw_text),
                        !.source = a.source] : r \in hit}

\* insert into public.observation_runs ... on conflict (run_issued_at) do update
\* ... returning run_id
ObsRunIdFor(run_issued_at) ==
    LET hit == {r \in observation_runs : r.run_issued_at = run_issued_at}
    IN  IF hit = {} THEN obs_seq + 1 ELSE (CHOOSE r \in hit : TRUE).run_id

\* Conflict target of the observations_v2 upsert.
SnapshotRowsAtAnyRun(rows, run_id, station_id, date) ==
    {r \in rows : r.station_id = station_id /\ r.date = date}

SnapshotRowsAt(rows, run_id, station_id, date) ==
    {r \in rows : r.run_id = run_id /\ r.station_id = station_id /\ r.date = date}

\* insert into public.observations_v2 ... on conflict (run_id, station_id, date)
\* do update
InsertSnapshot(rows, run_id, a) ==
    LET hit == SnapshotRowsAt(rows, run_id, a.station_id, a.date)
    IN  IF hit = {}
        THEN rows \cup {[run_id |-> run_id, station_id |-> a.station_id,
                         date |-> a.date,
                         observed_high |-> a.observed_high,
                         observed_low |-> a.observed_low,
                         issued_at |-> a.issued_at, fetched_at |-> a.now,
                         raw_text |-> a.raw_text, source |-> a.source]}
        ELSE (rows \ hit) \cup
             {[r EXCEPT !.observed_high = a.observed_high,
                        !.observed_low = a.observed_low,
                        !.issued_at = Coalesce(a.issued_at, r.issued_at),
                        !.fetched_at = a.now,
                        !.raw_text = Coalesce(a.raw_text, r.raw_text),
                        !.source = a.source] : r \in hit}

\* utc_now_z() on every call.
FreshRunIssuedAt(p) == clock

\* _get_obs_run_issued_at: the module global _OBS_RUN_ISSUED_AT of the process
\* is set from utc_now_z() by the first call and returned by every later one.
GetObsRunIssuedAt(p) ==
    IF obs_run_issued_at[p] = NULL THEN clock ELSE obs_run_issued_at[p]

\* upsert_observation, up to and including its reads: the run timestamp
\* (_get_obs_run_issued_at), the schema probe and, in the legacy schema, the
\* select of the stored source.
ObsBegin(p, station_id, date, vals, source) ==
    /\ pc[p] = "idle"
    /\ calls.obs < MaxObsCalls
    /\ LET run_at == GetObsRunIssuedAt(p)
           args == [op |-> "upsert_observation",
                    station_id |-> station_id, date |-> date,
                    observed_high |-> vals[1], observed_low |-> vals[2],
                    issued_at |-> vals[3], raw_text |-> vals[4],
                    source |-> source, run_issued_at |-> run_at,
                    now |-> clock,
                    existing_source |->
                        IF schema.has_new THEN NONE
                        ELSE SelectExistingSource(station_id, date)]
       IN  /\ obs_run_issued_at' = [obs_run_issued_at EXCEPT ![p] = run_at]
           /\ loc' = [loc EXCEPT ![p] = args]
    /\ pc' = [pc EXCEPT ![p] =
                 IF schema.has_new THEN "obs_snapshot" ELSE "obs_legacy"]
    /\ calls' = [calls EXCEPT !.obs = @ + 1]
    /\ UNCHANGED << extVars, clock, schema, dbRunVars, obs_seq, observation_runs,
                    observations_v2, observations, dbFcVars, forecast_errors,
                    error_stats,
                    ret >>

\* has_new: get_or_create_observation_run on the same connection, the
\* observations_v2 upsert, commit.  Both statements are upserts arbitrated by
\* unique indexes that make a second transaction on the same run wait for the
\* commit of the first, so the transaction takes effect as one step.
ObsSnapshotWrite(p) ==
    /\ pc[p] = "obs_snapshot"
    /\ LET a == loc[p]
           run_id == ObsRunIdFor(a.run_issued_at)
       IN  /\ observation_runs' = observation_runs \cup
                  {[run_id |-> run_id, run_issued_at |-> a.run_issued_at]}
           /\ obs_seq' = IF run_id > obs_seq THEN run_id ELSE obs_seq
           /\ observations_v2' = InsertSnapshot(observations_v2, run_id, a)
           /\ ret' = [ret EXCEPT ![p] =
                         [op |-> "upsert_observation", path |-> "snapshot"]]
    /\ pc' = [pc EXCEPT ![p] = "idle"]
    /\ loc' = [loc EXCEPT ![p] = NoCall]
    /\ UNCHANGED << extVars, clock, schema, dbRunVars, observations, obs_run_issued_at,
                    dbFcVars, forecast_errors, error_stats, calls >>

\* Legacy single-row schema: touch fetched_at on a downgrade, else upsert;
\* commit.  The decision rests on existing_source, read by the earlier select:
\* other connections may have committed between that select and this write.
ObsLegacyWrite(p) ==
    /\ pc[p] = "obs_legacy"
    /\ LET a == loc[p]
       IN  /\ observations' =
                  IF IsDowngrade(a.existing_source, a.source)
                  THEN TouchObservation(observations, a)
                  ELSE InsertObservation(observations, a)
           /\ ret' = [ret EXCEPT ![p] =
                         [op |-> "upsert_observation",
                          path |-> IF IsDowngrade(a.existing_source, a.source)
                                   THEN "touch" ELSE "upsert"]]
    /\ pc' = [pc EXCEPT ![p] = "idle"]
    /\ loc' = [loc EXCEPT ![p] = NoCall]
    /\ UNCHANGED << extVars, clock, schema, dbRunVars, obs_seq, observation_runs,
                    observations_v2, obs_run_issued_at, dbFcVars,
                    forecast_errors, error_stats, calls >>

\* Time passes.
Tick ==
    /\ clock < MaxClock
    /\ clock' = clock + 1
    /\ UNCHANGED << extVars, schema, dbRunVars, dbObsVars, dbFcVars, forecast_errors,
                    error_stats,
                    pc, loc, ret, calls >>

ObsCall(p) ==
    \E st \in Stations, d \in ObsDates, v \in ObsPayloads, s \in ObsSources :
        ObsBegin(p, st, d, v, s)

\* The schema is fixed for a run of the system: either both snapshot tables
\* exist (has_new) or only the legacy single-row table does.
InitObsLegacy   == InitDb(FALSE, FALSE, TRUE)
InitObsSnapshot == InitDb(TRUE, TRUE, TRUE)

\* Legacy schema, independent processes arbitrarily interleaved.
NextObsLegacy ==
    \/ Tick
    \/ \E p \in Procs : ObsCall(p) \/ ObsLegacyWrite(p)

SpecObsLegacy == InitObsLegacy /\ [][NextObsLegacy]_vars

\* Snapshot schema, independent processes arbitrarily interleaved.
NextObsSnapshot ==
    \/ Tick
    \/ \E p \in Procs : ObsCall(p) \/ ObsSnapshotWrite(p)

SpecObsSnapshot == InitObsSnapshot /\ [][NextObsSnapshot]_vars

\* Legacy schema, one call at a time (the nightly loop over the stations): a
\* call starts only when no other process is inside a call.
Alone(p) == \A q \in Procs \ {p} : pc[q] = "idle"

NextObsLegacySeq ==
    \/ Tick
    \/ \E p \in Procs :
          \/ Alone(p) /\ ObsCall(p)
          \/ Alone(p) /\ ObsLegacyWrite(p)

SpecObsLegacySeq == InitObsLegacy /\ [][NextObsLegacySeq]_vars

\* ------------------------------------------------- observation claims
\* The authority order of the data model: official climate report, then the
\* station-observation fallback, then every other source.
Authority(source) ==
    IF source = "NWS_CLI" THEN 2
    ELSE IF source = "NWS_OBS_FALLBACK" THEN 1 ELSE 0

LegacyWriteBy(p)   == pc[p] = "obs_legacy" /\ pc'[p] = "idle"
SnapshotWriteBy(p) == pc[p] = "obs_snapshot" /\ pc'[p] = "idle"

OneRowPerStationDay ==
    \A st \in Stations, d \in ObsDates :
        Cardinality(ObsRowsAt(observations, st, d)) <= 1

\* C2: legacy mode, a row exists for (station, date) and the incoming source
\* has strictly lower authority than the stored one: observed_high,
\* observed_low, source, issued_at and raw_text stay as stored, only fetched_at
\* changes.
LowerAuthorityOnlyTouches ==
    [][\A p \in Procs :
          LegacyWriteBy(p) =>
              LET a == loc[p]
                  stored == ObsRowsAt(observations, a.station_id, a.date)
              IN  ( /\ stored # {}
                    /\ \A r \in stored : Authority(a.source) < Authority(r.source) )
                  => ObsRowsAt(observations', a.station_id, a.date)
                       = {[r EXCEPT !.fetched_at = a.now] : r \in stored}
      ]_vars

\* A lower-authority call has ended in the touch statement while an official
\* report is stored.
LowerAuthorityWitness ==
    \E p \in Procs :
        /\ ret[p].op = "upsert_observation"
        /\ ret[p].path = "touch"
        /\ \E r \in observations : r.source = "NWS_CLI" /\ r.fetched_at > 0

\* C3: legacy mode, a row exists and the incoming source has equal or higher
\* authority: the row is overwritten, observed_high, observed_low and source
\* are the incoming ones afterwards.
EqualOrHigherOverwrites ==
    [][\A p \in Procs :
          LegacyWriteBy(p) =>
              LET a == loc[p]
                  stored == ObsRowsAt(observations, a.station_id, a.date)
                  after == ObsRowsAt(observations', a.station_id, a.date)
              IN  ( /\ stored # {}
                    /\ \A r \in stored : Authority(a.source) >= Authority(r.source) )
                  => /\ Cardinality(after) = 1
                     /\ \A r \in after :
                           /\ r.observed_high = a.observed_high
                           /\ r.observed_low = a.observed_low
                           /\ r.source = a.source
      ]_vars

\* A stored row that carries the product text of an earlier report and the
\* values of a later report without text: it has been overwritten in place.
OverwriteWitness ==
    \E p \in Procs :
        /\ ret[p].op = "upsert_observation"
        /\ ret[p].path = "upsert"
        /\ \E r \in observations :
              r.observed_high = 294 /\ r.raw_text = 7 /\ r.source = "NWS_CLI"

\* C4: legacy mode, calls for the same (station, date) interleaved from
\* independent connections: one row per (station, date), and the stored
\* source never moves to a lower authority.
AuthorityNeverLowered ==
    /\ []OneRowPerStationDay
    /\ [][\A r \in observations : \A r2 \in observations' :
             (r2.station_id = r.station_id /\ r2.date = r.date)
             => Authority(r2.source) >= Authority(r.source)]_vars

\* C5: legacy mode, no row yet for (station, date): the incoming observation
\* is inserted whatever the authority of its source.
FirstWriteAlwaysInserts ==
    [][\A p \in Procs :
          LegacyWriteBy(p) =>
              LET a == loc[p]
              IN  ObsRowsAt(observations, a.station_id, a.date) = {}
                  => ObsRowsAt(observations', a.station_id, a.date)
                       = {[station_id |-> a.station_id, date |-> a.date,
                           observed_high |-> a.observed_high,
                           observed_low |-> a.observed_low,
                           issued_at |-> a.issued_at, fetched_at |-> a.now,
                           raw_text |-> a.raw_text, source |-> a.source]}
      ]_vars

\* The only stored row is one of the lowest authority: it was inserted into an
\* empty table.
FirstWriteWitness ==
    /\ \E p \in Procs : ret[p].op = "upsert_observation" /\ ret[p].path = "upsert"
    /\ \E r \in observations : observations = {r} /\ r.source = "MANUAL"

\* C6: snapshot mode: a call writes the row (its run, station, date) with the
\* incoming values whatever the authority, every row of another observation
\* run stays as it is, and no snapshot is removed.
SnapshotsRetained ==
    [][\A p \in Procs :
          SnapshotWriteBy(p) =>
              LET a == loc[p]
                  run == {r \in observation_runs' :
                              r.run_issued_at = a.run_issued_at}
              IN  /\ Cardinality(run) = 1
                  /\ \A rn \in run :
                        /\ \A r \in observations_v2 :
                              r.run_id # rn.run_id => r \in observations_v2'
                        /\ \E r \in observations_v2' :
                              /\ r.run_id = rn.run_id
                              /\ r.station_id = a.station_id /\ r.date = a.date
                              /\ r.observed_high = a.observed_high
                              /\ r.observed_low = a.observed_low
                              /\ r.source = a.source
                  /\ \A r \in observations_v2 : \E r2 \in observations_v2' :
                        /\ r2.run_id = r.run_id
                        /\ r2.station_id = r.station_id /\ r2.date = r.date
      ]_vars

\* Two snapshots of one station-day are stored, the later run's from a source
\* of lower authority than the earlier run's.
SnapshotsWitness ==
    \E r1, r2 \in observations_v2 :
        /\ r1.station_id = r2.station_id /\ r1.date = r2.date
        /\ r1.run_id < r2.run_id
        /\ Authority(r1.source) > Authority(r2.source)

\* ------------------------------------------------------------ forecast store
\* (high_f, low_f, lead_high_hours, lead_low_hours) of one daily row: both
\* kinds, a revised high alone, a revised low alone.
FcPayloads == {<<300, 180, 21, 12>>, <<310, NULL, 21, NULL>>,
               <<NULL, 175, NULL, 12>>}

\* get_or_create_forecast_run on the caller's connection (conn given: no
\* commit of its own), as one statement.
RunIdFor(source, issued_at) ==
    LET hit == ConflictRuns(forecast_runs, source, issued_at)
    IN  IF hit = {} THEN run_seq + 1 ELSE (CHOOSE r \in hit : TRUE).run_id

\* insert into public.forecasts_daily ... on conflict (run_id, station_id,
\* target_date) do update set high_f, low_f, lead_high_hours, lead_low_hours
InsertDailyRow(rows, new) == rows \cup {new}

UpsertDailyRow(rows, new) ==
    LET hit == {r \in rows : /\ r.run_id = new.run_id
                             /\ r.station_id = new.station_id
                             /\ r.target_date = new.target_date}
    IN  (rows \ hit) \cup {new}

\* cur.executemany(sql, rows)
RECURSIVE BulkUpsertForecastsDaily(_, _)
BulkUpsertForecastsDaily(rows, batch) ==
    IF batch = << >> THEN rows
    ELSE BulkUpsertForecastsDaily(UpsertDailyRow(rows, Head(batch)), Tail(batch))

\* One written task of the morning run: the run is created first, its daily
\* rows are upserted, then the connection commits.
StoreDaily(source, issued_at, station_id, target_date, pl) ==
    /\ schema.has_daily
    /\ pc[1] = "idle"
    /\ calls.fc < MaxFcWrites
    /\ LET run_id == RunIdFor(source, issued_at)
           batch == << [run_id |-> run_id, station_id |-> station_id,
                        target_date |-> target_date,
                        high_f |-> pl[1], low_f |-> pl[2],
                        lead_high_hours |-> pl[3], lead_low_hours |-> pl[4]] >>
       IN  /\ forecast_runs' = forecast_runs \cup
                  {[run_id |-> run_id, source |-> source, issued_at |-> issued_at]}
           /\ run_seq' = IF run_id > run_seq THEN run_id ELSE run_seq
           /\ forecasts_daily' = BulkUpsertForecastsDaily(forecasts_daily, batch)
           /\ ret' = [ret EXCEPT ![1] =
                         [op |-> "bulk_upsert_forecasts_daily", wrote |-> Len(batch)]]
    /\ calls' = [calls EXCEPT !.fc = @ + 1]
    /\ UNCHANGED << extVars, clock, schema, fr_pending, dbObsVars, forecasts,
                    forecast_errors, error_stats, pc, loc >>

\* insert into public.forecasts ... on conflict (run_id, station_id,
\* target_date, kind) do update set value_f = excluded.value_f,
\* lead_hours = coalesce(excluded.lead_hours, public.forecasts.lead_hours)
UpsertForecastValue(rows, new) ==
    LET hit == {r \in rows : /\ r.run_id = new.run_id
                             /\ r.station_id = new.station_id
                             /\ r.target_date = new.target_date
                             /\ r.kind = new.kind}
    IN  IF hit = {} THEN rows \cup {new}
        ELSE (rows \ hit) \cup
             {[r EXCEPT !.value_f = new.value_f,
                        !.lead_hours = Coalesce(new.lead_hours, r.lead_hours)]
                 : r \in hit}

\* Legacy two-row format: get_or_create_forecast_run, then upsert_forecast_value
\* for one kind, each committing on its own connection.
StoreLegacy(source, issued_at, station_id, target_date, kind, value_f, lead_hours) ==
    /\ ~schema.has_daily
    /\ pc[1] = "idle"
    /\ calls.fc < MaxFcWrites
    /\ LET run_id == RunIdFor(source, issued_at)
           new == [run_id |-> run_id, station_id |-> station_id,
                   target_date |-> target_date, kind |-> kind,
                   value_f |-> value_f, lead_hours |-> lead_hours]
       IN  /\ forecast_runs' = forecast_runs \cup
                  {[run_id |-> run_id, source |-> source, issued_at |-> issued_at]}
           /\ run_seq' = IF run_id > run_seq THEN run_id ELSE run_seq
           /\ forecasts' = UpsertForecastValue(forecasts, new)
           /\ ret' = [ret EXCEPT ![1] = [op |-> "upsert_forecast_value"]]
    /\ calls' = [calls EXCEPT !.fc = @ + 1]
    /\ UNCHANGED << extVars, clock, schema, fr_pending, dbObsVars, forecasts_daily,
                    forecast_errors, error_stats, pc, loc >>

\* --------------------------------------------------------------- error builder
\* public.observations_latest: per (station, date) the snapshot of the latest
\* observation run.
ObservationsLatest ==
    {o \in observations_v2 :
        \A o2 \in observations_v2 :
            (o2.station_id = o.station_id /\ o2.date = o.date)
            => o2.run_id <= o.run_id}

\* select station_id, observed_high, observed_low from observations_latest or
\* observations where date = target_date
ObsRowsAnyDate(target_date) ==
    IF schema.has_latest THEN ObservationsLatest ELSE observations

ObsRowsForDate(target_date) ==
    {o \in (IF schema.has_latest THEN ObservationsLatest ELSE observations) :
        o.date = target_date}

Abs(x) == IF x < 0 THEN -x ELSE x

\* error_f = float(forecast) - observed_f
ReversedErrorOf(forecast_f, observed_f) == observed_f - forecast_f

ErrorOf(forecast_f, observed_f) == forecast_f - observed_f

\* forecast_id = f"{run_id}|{station_id}|{target_date}|{kind}"
ForecastId(run_id, station_id, target_date, kind) ==
    << run_id, station_id, target_date, kind >>

\* The parameter tuple of one insert into public.forecast_errors.
ErrorRow(run, station_id, target_date, kind, lead_hours, forecast_f, observed_f) ==
    [forecast_id |-> ForecastId(run.run_id, station_id, target_date, kind),
     station_id |-> station_id, source |-> run.source,
     target_date |-> target_date, kind |-> kind, issued_at |-> run.issued_at,
     lead_hours |-> lead_hours, forecast_f |-> forecast_f,
     observed_f |-> observed_f,
     error_f |-> ErrorOf(forecast_f, observed_f),
     abs_error_f |-> Abs(ErrorOf(forecast_f, observed_f))]

\* forecasts_daily d join forecast_runs r, one insert per non-null kind
DailyCandidatesBothKinds(target_date, o) ==
    UNION {
        LET run == CHOOSE r \in forecast_runs : r.run_id = d.run_id
        IN  {ErrorRow(run, o.station_id, target_date, "high",
                      d.lead_high_hours, d.high_f, o.observed_high),
             ErrorRow(run, o.station_id, target_date, "low",
                      d.lead_low_hours, d.low_f, o.observed_low)}
        : d \in {x \in forecasts_daily :
                    /\ x.station_id = o.station_id
                    /\ x.target_date = target_date
                    /\ \E r \in forecast_runs : r.run_id = x.run_id} }

DailyCandidates(target_date, o) ==
    UNION {
        LET run == CHOOSE r \in forecast_runs : r.run_id = d.run_id
        IN  (IF d.high_f # NULL
             THEN {ErrorRow(run, o.station_id, target_date, "high",
                            d.lead_high_hours, d.high_f, o.observed_high)}
             ELSE {})
            \cup
            (IF d.low_f # NULL
             THEN {ErrorRow(run, o.station_id, target_date, "low",
                            d.lead_low_hours, d.low_f, o.observed_low)}
             ELSE {})
        : d \in {x \in forecasts_daily :
                    /\ x.station_id = o.station_id
                    /\ x.target_date = target_date
                    /\ \E r \in forecast_runs : r.run_id = x.run_id} }

\* forecasts f join forecast_runs r, rows with a null value skipped
LegacyCandidates(target_date, o) ==
    { ErrorRow(CHOOSE r \in forecast_runs : r.run_id = f.run_id,
               o.station_id, target_date, f.kind, f.lead_hours, f.value_f,
               IF f.kind = "high" THEN o.observed_high ELSE o.observed_low)
        : f \in {x \in forecasts :
                    /\ x.station_id = o.station_id
                    /\ x.target_date = target_date
                    /\ x.value_f # NULL
                    /\ \E r \in forecast_runs : r.run_id = x.run_id} }

\* insert ... on conflict (forecast_id) do nothing
InsertAlways(errors, row) == errors (+) SetToBag({row})

InsertOrReplace(errors, row) ==
    LET kept == {e \in BagToSet(errors) : e.forecast_id # row.forecast_id}
    IN  [e \in kept \cup {row} |-> IF e = row THEN 1 ELSE errors[e]]

InsertIfAbsent(errors, row) ==
    IF \E e \in BagToSet(errors) : e.forecast_id = row.forecast_id
    THEN errors
    ELSE errors (+) SetToBag({row})

\* The loop over the statements of one call: each executes the insert and
\* then counts, wrote += 1.
RECURSIVE InsertErrors(_, _)
InsertErrors(acc, todo) ==
    IF todo = {} THEN acc
    ELSE LET row == CHOOSE x \in todo : TRUE
         IN  InsertErrors([errors |-> InsertIfAbsent(acc.errors, row),
                           wrote |-> acc.wrote + 1],
                          todo \ {row})

\* observed_f = float(oh) / float(ol): float(None) raises TypeError, for the
\* kinds a non-null forecast value asks for.
FloatRaises(todo) == \E row \in todo : row.observed_f = NULL

\* build_errors_for_date(target_date): the table after the commit and the
\* value returned.  With no observation for the date the call returns 0 before
\* any insert.  An exception leaves the loop before conn.commit(): the
\* inserts made so far are rolled back with the connection.
BuildErrorsResult(target_date) ==
    LET obs_rows == ObsRowsForDate(target_date)
        todo == UNION {IF schema.has_daily
                       THEN DailyCandidates(target_date, o)
                       ELSE LegacyCandidates(target_date, o) : o \in obs_rows}
    IN  IF obs_rows = {}
        THEN [errors |-> forecast_errors, wrote |-> 0, raised |-> FALSE]
        ELSE IF FloatRaises(todo)
        THEN [errors |-> forecast_errors, wrote |-> NULL, raised |-> TRUE]
        ELSE [raised |-> FALSE] @@
             InsertErrors([errors |-> forecast_errors, wrote |-> 0], todo)

BuildErrorsForDate(target_date) ==
    /\ pc[1] = "idle"
    /\ calls.build < MaxBuilds
    /\ LET res == BuildErrorsResult(target_date)
       IN  /\ forecast_errors' = res.errors
           \* wrote is the value returned (none when the call raised);
           \* inserted and again only observe the call: the rows it added, and
           \* whether the call before it was the same one.
           /\ ret' = [ret EXCEPT ![1] =
                         [op |-> "build_errors_for_date",
                          target_date |-> target_date, wrote |-> res.wrote,
                          raised |-> res.raised,
                          inserted |-> BagCardinality(res.errors)
                                         - BagCardinality(forecast_errors),
                          again |-> /\ ret[1].op = "build_errors_for_date"
                                    /\ ret[1].target_date = target_date]]
    /\ calls' = [calls EXCEPT !.build = @ + 1]
    /\ UNCHANGED << extVars, clock, schema, dbRunVars, dbObsVars, dbFcVars, error_stats,
                    pc, loc >>

\* The forecasts and observations the scoring runs are explored with.
ErrRunKeys  == {<<"NWS", 1>>, <<"OME_BASE", 1>>}
ErrFcInputs ==
    ({<<"KMDW", 20260131>>} \X FcPayloads)
    \cup {<< <<"KNYC", 20260130>>, <<300, 180, 21, 12>> >>}
\* (station, target date, kind, value_f, lead_hours) of the two-row format.
ErrLegacyInputs ==
    {<<"KMDW", 20260131, "high", 300, 21>>, <<"KMDW", 20260131, "high", 310, NULL>>,
     <<"KMDW", 20260131, "low", 180, 12>>, <<"KMDW", 20260131, "low", NULL, 12>>,
     <<"KNYC", 20260130, "high", 300, 21>>}
ErrObsInputs ==
    ({"KMDW"} \X ObsPayloads) \cup {<<"KNYC", <<294, 171, NULL, NULL>> >>}

InitErr == \E has_daily \in BOOLEAN : InitDb(FALSE, FALSE, has_daily)

\* The morning write, the nightly observation fetch and the scoring pass, one
\* call at a time.
NextErr ==
    \/ \E k \in ErrRunKeys, i \in ErrFcInputs :
          StoreDaily(k[1], k[2], i[1][1], i[1][2], i[2])
    \/ \E k \in ErrRunKeys, i \in ErrLegacyInputs :
          StoreLegacy(k[1], k[2], i[1], i[2], i[3], i[4], i[5])
    \/ \E i \in ErrObsInputs, d \in ObsDates : ObsBegin(1, i[1], d, i[2], "NWS_CLI")
    \/ ObsLegacyWrite(1)
    \/ \E d \in Dates : BuildErrorsForDate(d)

SpecErr == InitErr /\ [][NextErr]_vars

\* ------------------------------------------------------- error builder claims
BuildStep == calls'.build # calls.build

\* The non-null forecast values that target a date, whichever table holds them.
ForecastValuesFor(target_date) ==
    IF schema.has_daily
    THEN {[run_id |-> x.run_id, station_id |-> x.station_id, kind |-> "high",
           value_f |-> x.high_f]
             : x \in {y \in forecasts_daily :
                         y.target_date = target_date /\ y.high_f # NULL}}
         \cup
         {[run_id |-> x.run_id, station_id |-> x.station_id, kind |-> "low",
           value_f |-> x.low_f]
             : x \in {y \in forecasts_daily :
                         y.target_date = target_date /\ y.low_f # NULL}}
    ELSE {[run_id |-> x.run_id, station_id |-> x.station_id, kind |-> x.kind,
           value_f |-> x.value_f]
             : x \in {y \in forecasts :
                         y.target_date = target_date /\ y.value_f # NULL}}

ObservedOf(o, kind) == IF kind = "high" THEN o.observed_high ELSE o.observed_low

ErrorRowsOf(errors, run_id, station_id, target_date, kind) ==
    {e \in BagToSet(errors) :
        e.forecast_id = << run_id, station_id, target_date, kind >>}

\* C7: build_errors_for_date(d) leaves an error row for every non-null
\* forecast value of kind k that targets d at a station observed on d; the row
\* it stores has error_f = forecast - observed of the same kind and
\* abs_error_f = |error_f|, and every stored row relates its own fields so.
ErrorsComputed ==
    /\ [](\A e \in BagToSet(forecast_errors) :
             /\ e.error_f = e.forecast_f - e.observed_f
             /\ e.abs_error_f = Abs(e.error_f))
    /\ [][BuildStep =>
            LET d == ret'[1].target_date
            IN  \A o \in ObsRowsForDate(d) : \A f \in ForecastValuesFor(d) :
                    f.station_id = o.station_id =>
                        LET old == ErrorRowsOf(forecast_errors, f.run_id,
                                               f.station_id, d, f.kind)
                            new == ErrorRowsOf(forecast_errors', f.run_id,
                                               f.station_id, d, f.kind)
                        IN  /\ new # {}
                            /\ old = {} =>
                                  \A e \in new :
                                     /\ e.kind = f.kind
                                     /\ e.forecast_f = f.value_f
                                     /\ e.observed_f = ObservedOf(o, f.kind)
                                     /\ e.error_f = f.value_f - ObservedOf(o, f.kind)
                                     /\ e.abs_error_f = Abs(e.error_f)
         ]_vars

\* Forecast high 30.0 / low 18.0 against observed 29.4 / 17.1: errors 0.6 and 0.9.
ErrorsScenario ==
    \E h, l \in BagToSet(forecast_errors) :
        /\ h.forecast_id[1] = l.forecast_id[1]
        /\ h.station_id = "KMDW" /\ l.station_id = "KMDW"
        /\ h.kind = "high" /\ h.forecast_f = 300 /\ h.observed_f = 294
        /\ h.error_f = 6 /\ h.abs_error_f = 6
        /\ l.kind = "low" /\ l.forecast_f = 180 /\ l.observed_f = 171
        /\ l.error_f = 9 /\ l.abs_error_f = 9

\* C8: a second build_errors_for_date(d) over unchanged forecasts and
\* observations leaves forecast_errors as it is, and there is never more than
\* one row per run|station|target_date|kind.
ErrorsIdempotent ==
    /\ [](\A e \in BagToSet(forecast_errors) :
             /\ CopiesIn(e, forecast_errors) = 1
             /\ \A e2 \in BagToSet(forecast_errors) :
                   e2.forecast_id = e.forecast_id => e2 = e)
    /\ [][( /\ BuildStep
            /\ ret[1].op = "build_errors_for_date"
            /\ ret[1].target_date = ret'[1].target_date )
          => forecast_errors' = forecast_errors]_vars

\* The same call twice in a row, the second one attempting rows and adding none.
ErrorsRepeated ==
    /\ ret[1].op = "build_errors_for_date"
    /\ ret[1].again
    /\ ret[1].wrote > 0
    /\ ret[1].inserted = 0

\* C9: once a forecast_errors row exists no later step changes or removes it,
\* also when the forecast value or the observation behind it has changed.
ErrorRowsWriteOnce ==
    [][\A e \in BagToSet(forecast_errors) :
          /\ e \in BagToSet(forecast_errors')
          /\ CopiesIn(e, forecast_errors') = CopiesIn(e, forecast_errors)]_vars

\* A scoring call has run over a date for which one stored error row no longer
\* matches the forecast value and one no longer matches the observation.
StaleErrorKept ==
    /\ ret[1].op = "build_errors_for_date"
    /\ ret[1].wrote > 0
    /\ \E e \in BagToSet(forecast_errors) :
          /\ e.target_date = ret[1].target_date
          /\ \E f \in ForecastValuesFor(e.target_date) :
                /\ << f.run_id, f.station_id, e.target_date, f.kind >> = e.forecast_id
                /\ f.value_f # e.forecast_f
    /\ \E e \in BagToSet(forecast_errors) :
          /\ e.target_date = ret[1].target_date
          /\ \E o \in ObsRowsForDate(e.target_date) :
                /\ o.station_id = e.station_id
                /\ ObservedOf(o, e.kind) # e.observed_f

\* C10: the integer build_errors_for_date returns is the number of rows the
\* call wrote into forecast_errors.
ReturnsRowsWritten ==
    [][BuildStep =>
          ret'[1].wrote = BagCardinality(forecast_errors')
                            - BagCardinality(forecast_errors)]_vars

\* ------------------------------------------- scoring with missing observations
\* Forecasts for two stations of which one may stay unobserved, and an
\* observation whose high is missing: upsert_observation stores the values it
\* is handed.
ErrNullFcInputs ==
    {<< <<"KMDW", 20260131>>, <<300, 180, 21, 12>> >>,
     << <<"KMDW", 20260131>>, <<NULL, 175, NULL, 12>> >>,
     << <<"KNYC", 20260131>>, <<300, 180, 21, 12>> >>,
     << <<"KNYC", 20260130>>, <<300, 180, 21, 12>> >>}
ErrNullLegacyInputs ==
    {<<"KMDW", 20260131, "high", 300, 21>>, <<"KMDW", 20260131, "low", 180, 12>>,
     <<"KNYC", 20260131, "high", 300, 21>>, <<"KNYC", 20260130, "low", 180, 12>>}
ErrNullObsInputs ==
    {<<"KMDW", <<294, 171, NULL, NULL>> >>, <<"KMDW", <<NULL, 171, NULL, NULL>> >>,
     <<"KNYC", <<294, 171, NULL, NULL>> >>}

NextErrNull ==
    \/ \E k \in ErrRunKeys, i \in ErrNullFcInputs :
          StoreDaily(k[1], k[2], i[1][1], i[1][2], i[2])
    \/ \E k \in ErrRunKeys, i \in ErrNullLegacyInputs :
          StoreLegacy(k[1], k[2], i[1], i[2], i[3], i[4], i[5])
    \/ \E i \in ErrNullObsInputs, d \in ObsDates :
          ObsBegin(1, i[1], d, i[2], "NWS_CLI")
    \/ ObsLegacyWrite(1)
    \/ \E d \in Dates : BuildErrorsForDate(d)

SpecErrNull == InitErr /\ [][NextErrNull]_vars

\* The rows a step adds to forecast_errors.
ErrorsAdded ==
    {e \in BagToSet(forecast_errors') :
        CopiesIn(e, forecast_errors') > CopiesIn(e, forecast_errors)}

StationsObservedOn(date) ==
    {o.station_id : o \in {x \in observations : x.date = date}}

\* C11: build_errors_for_date(d) adds no error row for a station without an
\* observation for d; when no station has one it returns 0 and writes nothing;
\* and no error row is ever computed from a null observed value.
UnobservedSkipped ==
    /\ [](\A e \in BagToSet(forecast_errors) : e.observed_f # NULL)
    /\ [][BuildStep =>
            LET d == ret'[1].target_date
            IN  /\ \A e \in ErrorsAdded :
                      /\ e.target_date = d
                      /\ e.station_id \in StationsObservedOn(d)
                      /\ e.observed_f # NULL
                /\ StationsObservedOn(d) = {} =>
                      /\ forecast_errors' = forecast_errors
                      /\ ~ret'[1].raised
                      /\ ret'[1].wrote = 0
         ]_vars

\* A scoring call added rows for KMDW, whose observation lacks the high, while
\* KNYC has a forecast for the date, no observation, and no error row.
UnobservedWitness ==
    /\ ret[1].op = "build_errors_for_date"
    /\ ret[1].inserted > 0
    /\ \E o \in observations :
          /\ o.date = ret[1].target_date
          /\ o.station_id = "KMDW"
          /\ o.observed_high = NULL
    /\ "KNYC" \notin StationsObservedOn(ret[1].target_date)
    /\ \E f \in ForecastValuesFor(ret[1].target_date) : f.station_id = "KNYC"
    /\ \A e \in BagToSet(forecast_errors) : e.station_id # "KNYC"

\* A scoring call met a null observed value for a forecast value it had to
\* score, and raised.
UnobservedRaised ==
    /\ ret[1].op = "build_errors_for_date"
    /\ ret[1].raised

\* ------------------------------------------------------- one-sided forecasts
\* The daily rows for a date that carry exactly one of high_f / low_f.
OneSidedDaily(target_date) ==
    {x \in forecasts_daily :
        /\ x.target_date = target_date
        /\ (x.high_f = NULL) # (x.low_f = NULL)}

\* C12: for a daily forecast row with exactly one of high/low non-null at an
\* observed station, build_errors_for_date completes normally, leaves an error
\* row for the non-null kind and adds none for the null kind.
OneSidedForecastScored ==
    [][BuildStep =>
          LET d == ret'[1].target_date
          IN  \A x \in OneSidedDaily(d) :
                 x.station_id \in StationsObservedOn(d) =>
                    LET has  == IF x.high_f # NULL THEN "high" ELSE "low"
                        lacks == IF x.high_f # NULL THEN "low" ELSE "high"
                    IN  /\ ~ret'[1].raised
                        /\ ret'[1].wrote \in Nat
                        /\ \E e \in BagToSet(forecast_errors') :
                              /\ e.forecast_id = << x.run_id, x.station_id, d, has >>
                              /\ e.kind = has
                        /\ \A e \in ErrorsAdded :
                              e.forecast_id # << x.run_id, x.station_id, d, lacks >>
       ]_vars

\* A scoring call scored a row that has a high and no low: the run has an error
\* row for the high and none for the low.
OneSidedWitness ==
    /\ ret[1].op = "build_errors_for_date"
    /\ ~ret[1].raised
    /\ ret[1].inserted > 0
    /\ \E x \in OneSidedDaily(ret[1].target_date) :
          /\ x.low_f = NULL
          /\ x.station_id \in StationsObservedOn(ret[1].target_date)
          /\ ErrorRowsOf(forecast_errors, x.run_id, x.station_id,
                         x.target_date, "high") # {}
          /\ ErrorRowsOf(forecast_errors, x.run_id, x.station_id,
                         x.target_date, "low") = {}

\* ------------------------------------------------------ morning write cycle
\* issued_at strings as collectors hand them over: one instant written with a
\* Z suffix, with a numeric offset and with blanks around it, and a later one.
IssuedAtTexts ==
    {"2026-02-01T06:00:00Z", "2026-02-01T06:00:00+00:00",
     " 2026-02-01T06:00:00Z ", "2026-02-01T07:00:00Z"}

\* _require_str: v.strip() of a non-empty string
RequireStr(v) ==
    CASE v = " 2026-02-01T06:00:00Z " -> "2026-02-01T06:00:00Z"
      [] OTHER -> v

\* forecast_runs.issued_at is a timestamptz column: the text parameter is
\* stored, and compared by the unique index, as the instant it denotes
\* (ToTimestamptz), not as its characters (TextAsKey).
TextAsKey(text) ==
    CASE text = "2026-02-01T06:00:00Z"      -> 1
      [] text = "2026-02-01T06:00:00+00:00" -> 3
      [] text = "2026-02-01T07:00:00Z"      -> 2

ToTimestamptz(text) ==
    CASE text = "2026-02-01T06:00:00Z"      -> 1
      [] text = "2026-02-01T06:00:00+00:00" -> 1
      [] text = "2026-02-01T07:00:00Z"      -> 2
      [] text = "2026-03-08T05:00:00Z"      -> 3
      [] text = "2026-03-08T22:00:00Z"      -> 4

\* (high_f, low_f, lead_high_hours, lead_low_hours) of a normalized daily row
\* with its lead times: a first fetch and a refreshed one.
MorningPayloads == {<<300, 180, 21, 12>>, <<310, 175, 20, 11>>}

\* One iteration of the write loop of main for a task that fetched one daily
\* row: get_or_create_forecast_run on the shared connection, the batch with
\* its lead times, bulk_upsert_forecasts_daily, conn.commit().
MorningTask(source_id, station_id, raw_issued_at, target_date, pl) ==
    /\ schema.has_daily
    /\ pc[1] = "idle"
    /\ calls.fc < MaxFcWrites
    /\ LET issued_at == RequireStr(raw_issued_at)
           run_id == RunIdFor(source_id, ToTimestamptz(issued_at))
           daily_batch ==
               << [run_id |-> run_id, station_id |-> station_id,
                   target_date |-> target_date,
                   high_f |-> pl[1], low_f |-> pl[2],
                   lead_high_hours |-> pl[3], lead_low_hours |-> pl[4]] >>
       IN  /\ forecast_runs' = forecast_runs \cup
                  {[run_id |-> run_id, source |-> source_id,
                    issued_at |-> ToTimestamptz(issued_at)]}
           /\ run_seq' = IF run_id > run_seq THEN run_id ELSE run_seq
           /\ forecasts_daily' = BulkUpsertForecastsDaily(forecasts_daily, daily_batch)
           \* run_id and wrote are what the iteration obtained; the other
           \* fields only observe it: its inputs, the task written before it,
           \* and whether it found a row with other values under its key.
           /\ ret' = [ret EXCEPT ![1] =
                  [op |-> "morning_task", source |-> source_id,
                   station_id |-> station_id, issued_at |-> raw_issued_at,
                   target_date |-> target_date, pl |-> pl,
                   run_id |-> run_id, wrote |-> Len(daily_batch),
                   prev_source |-> IF ret[1].op = "morning_task"
                                   THEN ret[1].source ELSE "",
                   prev_issued_at |-> IF ret[1].op = "morning_task"
                                      THEN ret[1].issued_at ELSE "",
                   replaced |-> \E x \in forecasts_daily :
                                   /\ x.run_id = run_id
                                   /\ x.station_id = station_id
                                   /\ x.target_date = target_date
                                   /\ << x.high_f, x.low_f, x.lead_high_hours,
                                         x.lead_low_hours >> # pl]]
    /\ calls' = [calls EXCEPT !.fc = @ + 1]
    /\ UNCHANGED << extVars, clock, schema, fr_pending, dbObsVars, forecasts,
                    forecast_errors, error_stats, pc, loc >>

InitMorning == InitDb(TRUE, TRUE, TRUE)

NextMorning ==
    \E source_id \in RunSources, station_id \in Stations,
       raw_issued_at \in IssuedAtTexts, pl \in MorningPayloads :
        MorningTask(source_id, station_id, raw_issued_at, 20260131, pl)

SpecMorning == InitMorning /\ [][NextMorning]_vars

\* ------------------------------------------------------ morning write claims
MorningStep == calls'.fc # calls.fc

\* The instant an issued_at string denotes.
DenotedInstant(text) ==
    IF text \in {"2026-02-01T06:00:00Z", "2026-02-01T06:00:00+00:00",
                 " 2026-02-01T06:00:00Z "}
    THEN 1 ELSE 2

DailyRowsAt(rows, run_id, station_id, target_date) ==
    {x \in rows : /\ x.run_id = run_id
                  /\ x.station_id = station_id
                  /\ x.target_date = target_date}

\* C13: forecasts_daily never holds two rows for one (run, station, target
\* date), so there is one high and one low per key; a fetch whose source and
\* issued_at match an earlier one is written into that run, adds no run and no
\* second row, and leaves its own high, low and lead times under the key.
OneValuePerKey ==
    /\ [](\A x, y \in forecasts_daily :
             (x.run_id = y.run_id /\ x.station_id = y.station_id
              /\ x.target_date = y.target_date) => x = y)
    /\ [][MorningStep =>
            LET a == ret'[1]
                same == {r \in forecast_runs :
                            /\ r.source = a.source
                            /\ r.issued_at = DenotedInstant(a.issued_at)}
                old == DailyRowsAt(forecasts_daily, a.run_id, a.station_id,
                                   a.target_date)
                new == DailyRowsAt(forecasts_daily', a.run_id, a.station_id,
                                   a.target_date)
            IN  /\ new = {[run_id |-> a.run_id, station_id |-> a.station_id,
                           target_date |-> a.target_date,
                           high_f |-> a.pl[1], low_f |-> a.pl[2],
                           lead_high_hours |-> a.pl[3],
                           lead_low_hours |-> a.pl[4]]}
                /\ forecasts_daily' \ new = forecasts_daily \ old
                /\ same # {} =>
                      /\ a.run_id \in {r.run_id : r \in same}
                      /\ forecast_runs' = forecast_runs
         ]_vars

\* A second fetch of the same source, station and issued_at found the first
\* fetch's row under its key and replaced its values.
RefetchWitness ==
    /\ ret[1].op = "morning_task"
    /\ ret[1].prev_source = ret[1].source
    /\ ret[1].prev_issued_at = ret[1].issued_at
    /\ ret[1].replaced
    /\ Cardinality(forecasts_daily) = 1
    /\ Cardinality(forecast_runs) = 1

\* C14: the run key is the instant issued_at denotes: a fetch whose issued_at
\* string denotes the instant of an existing run of its source obtains that
\* run's id and creates no run, whatever its spelling, and no source ever has
\* two runs for one instant.
IssuedAtCanonical ==
    /\ [](\A r1, r2 \in forecast_runs :
             (r1.source = r2.source /\ r1.issued_at = r2.issued_at) => r1 = r2)
    /\ [][MorningStep =>
            LET a == ret'[1]
                same == {r \in forecast_runs :
                            /\ r.source = a.source
                            /\ r.issued_at = DenotedInstant(a.issued_at)}
            IN  /\ \E r \in forecast_runs' :
                      /\ r.run_id = a.run_id
                      /\ r.source = a.source
                      /\ r.issued_at = DenotedInstant(a.issued_at)
                /\ same # {} =>
                      /\ forecast_runs' = forecast_runs
                      /\ a.run_id \in {r.run_id : r \in same}
         ]_vars

\* Two fetches of one source, the second spelling the first one's instant
\* differently, with a single run between them.
IssuedAtWitness ==
    /\ ret[1].op = "morning_task"
    /\ ret[1].prev_source = ret[1].source
    /\ ret[1].prev_issued_at = "2026-02-01T06:00:00Z"
    /\ ret[1].issued_at = "2026-02-01T06:00:00+00:00"
    /\ Cardinality(forecast_runs) = 1

\* --------------------------------------------- scoring in the snapshot schema
\* One forecast per source for KMDW, and observation snapshots taken by two
\* nightly processes.  What a process stores depends on when its observation
\* run began: the first night has the station-observation fallback only, later
\* runs have the climate report; a run never changes its own snapshot.
SnapFcInputs  == {<< <<"KMDW", 20260131>>, <<300, 180, 21, 12>> >>}
SnapObsInput(run_issued_at) ==
    IF run_issued_at = 0
    THEN <<"NWS_OBS_FALLBACK", <<294, 171, NULL, NULL>> >>
    ELSE <<"NWS_CLI", <<301, 180, 5, 7>> >>

InitErrSnap == InitDb(TRUE, TRUE, TRUE)

NextErrSnap ==
    \/ \E k \in ErrRunKeys, i \in SnapFcInputs :
          StoreDaily(k[1], k[2], i[1][1], i[1][2], i[2])
    \/ \E p \in Procs, d \in ObsDates :
          LET i == SnapObsInput(IF obs_run_issued_at[p] = NULL THEN clock
                                ELSE obs_run_issued_at[p])
          IN  ObsBegin(p, "KMDW", d, i[2], i[1])
    \/ \E p \in Procs : ObsSnapshotWrite(p)
    \/ Tick
    \/ \E d \in ObsDates : BuildErrorsForDate(d)

SpecErrSnap == InitErrSnap /\ [][NextErrSnap]_vars

\* C15: error rows are keyed by observation snapshot as well: after a scoring
\* call every forecast value of an observed station-day has an error row
\* computed from the snapshot the call scored against, next to the row built
\* from an earlier snapshot of another observation run.
ErrorPerSnapshot ==
    [][BuildStep =>
          LET d == ret'[1].target_date
          IN  \A o \in ObsRowsForDate(d) : \A f \in ForecastValuesFor(d) :
                 f.station_id = o.station_id =>
                    \E e \in BagToSet(forecast_errors') :
                       /\ e.forecast_id[1] = f.run_id
                       /\ e.station_id = f.station_id
                       /\ e.target_date = d
                       /\ e.kind = f.kind
                       /\ e.observed_f = ObservedOf(o, f.kind)
       ]_vars

\* ------------------------------------------------------------- _percentile
\* Floats are exact fractions << numerator, denominator >> here: a temperature
\* error in tenths is << e, 1 >>, and p is given in hundredths (0.10 is 10).
\* float("nan") is the fraction with denominator 0.
NaN == << 1, 0 >>

Min2(a, b) == IF a < b THEN a ELSE b

\* The order statistic of nearest rank: no interpolation.
PercentileNearestRank(sorted_vals, p) ==
    IF sorted_vals = << >> THEN NaN
    ELSE LET k100 == (Len(sorted_vals) - 1) * p
         IN  << sorted_vals[((k100 + 50) \div 100) + 1], 1 >>

\* _percentile(sorted_vals, p); list index i of the code is position i + 1.
Percentile(sorted_vals, p) ==
    IF sorted_vals = << >> THEN NaN
    ELSE IF Len(sorted_vals) = 1 THEN << sorted_vals[1], 1 >>
    ELSE LET k100 == (Len(sorted_vals) - 1) * p      \* k, in hundredths
             f == k100 \div 100                      \* int(k), k >= 0
             c == Min2(f + 1, Len(sorted_vals) - 1)
         IN  IF f = c THEN << sorted_vals[f + 1], 1 >>
             ELSE LET d0 == sorted_vals[f + 1] * (c * 100 - k100)
                      d1 == sorted_vals[c + 1] * (k100 - f * 100)
                  IN  << d0 + d1, 100 >>

\* Sorted lists of errors up to PctMaxLen long, and the list of the worked
\* example; the ranks update_error_stats asks for, and the two ends.
PctMaxLen == 3
PctValues == {-20, -10, 0, 10, 50}
PctRanks  == {0, 10, 50, 90, 100}

IsSortedSeq(q) == \A i \in 1..(Len(q) - 1) : q[i] <= q[i + 1]

PctInputs ==
    {q \in UNION {[1..n -> PctValues] : n \in 0..PctMaxLen} : IsSortedSeq(q)}
    \cup {<< -20, -10, 0, 10, 50 >>}

InitDbArgs(call) ==
    /\ clock = 0
    /\ schema = [has_new |-> FALSE, has_latest |-> FALSE, has_daily |-> TRUE]
    /\ run_seq = 0
    /\ forecast_runs = {}
    /\ fr_pending = [p \in Procs |-> {}]
    /\ obs_seq = 0
    /\ observation_runs = {}
    /\ observations_v2 = {}
    /\ observations = {}
    /\ obs_run_issued_at = [p \in Procs |-> NULL]
    /\ forecasts_daily = {}
    /\ forecasts = {}
    /\ forecast_errors = EmptyBag
    /\ error_stats = {}
    /\ InitExt
    /\ NoMorningRun
    /\ pc = [p \in Procs |-> IF p = 1 THEN "called" ELSE "idle"]
    /\ loc = [p \in Procs |-> IF p = 1 THEN call ELSE NoCall]
    /\ ret = [p \in Procs |-> NoCall]
    /\ calls = [run |-> 0, obs |-> 0, fc |-> 0, build |-> 0, stats |-> 0]

InitPercentile ==
    \E sorted_vals \in PctInputs, p \in PctRanks :
        InitDbArgs([op |-> "_percentile", sorted_vals |-> sorted_vals, p |-> p])

ApplyPercentile ==
    /\ pc[1] = "called"
    /\ loc[1].op = "_percentile"
    /\ ret' = [ret EXCEPT ![1] =
                  [op |-> "_percentile", sorted_vals |-> loc[1].sorted_vals,
                   p |-> loc[1].p,
                   result |-> Percentile(loc[1].sorted_vals, loc[1].p)]]
    /\ pc' = [pc EXCEPT ![1] = "idle"]
    /\ loc' = [loc EXCEPT ![1] = NoCall]
    /\ UNCHANGED << extVars, clock, schema, dbRunVars, dbObsVars, dbFcVars,
                    forecast_errors, error_stats, calls >>

NextPercentile == ApplyPercentile

SpecPercentile == InitPercentile /\ [][NextPercentile]_vars

\* Fractions with positive denominators, compared by cross-multiplication.
RatEq(a, b)  == a[1] * b[2] = b[1] * a[2]
RatLeq(a, b) == a[1] * b[2] <= b[1] * a[2]

\* C17: _percentile is the linear-interpolation order statistic at fractional
\* rank k = (n-1)*p: the element at f = floor(k) when k is integral or f is
\* the last index, else sorted_vals[f]*(f+1-k) + sorted_vals[f+1]*(k-f); the
\* single element when n = 1; p50 = 0, p10 = -1.6 and p90 = 3.4 for the errors
\* [-2, -1, 0, 1, 5]; and always between the smallest and the largest element.
PercentileInterpolates ==
    ret[1].op = "_percentile" =>
        LET v == ret[1].sorted_vals
            n == Len(v)
            k100 == (n - 1) * ret[1].p
            f == CHOOSE i \in 0..(n - 1) : i * 100 <= k100 /\ k100 < (i + 1) * 100
            res == ret[1].result
        IN  n >= 1 =>
              /\ res[2] > 0
              /\ n = 1 => RatEq(res, << v[1], 1 >>)
              /\ (k100 = f * 100 \/ f = n - 1) => RatEq(res, << v[f + 1], 1 >>)
              /\ (k100 # f * 100 /\ f < n - 1) =>
                    RatEq(res, << v[f + 1] * ((f + 1) * 100 - k100)
                                    + v[f + 2] * (k100 - f * 100), 100 >>)
              /\ RatLeq(<< v[1], 1 >>, res) /\ RatLeq(res, << v[n], 1 >>)
              /\ v = << -20, -10, 0, 10, 50 >> =>
                    /\ ret[1].p = 50 => RatEq(res, << 0, 1 >>)
                    /\ ret[1].p = 10 => RatEq(res, << -16, 1 >>)
                    /\ ret[1].p = 90 => RatEq(res, << 34, 1 >>)

\* The worked example at p10: -1.6, between the two lowest errors.
PercentileWitness ==
    /\ ret[1].op = "_percentile"
    /\ ret[1].sorted_vals = << -20, -10, 0, 10, 50 >>
    /\ ret[1].p = 10
    /\ ret[1].result = << -1600, 100 >>

\* ---------------------------------------------------------- stats aggregator
\* A null float column, as a fraction.
NullRat == << 0, 0 >>

\* Days since 2025-12-31 of a date yyyymmdd of 2026.
DayNumber(date) ==
    LET cum == << 0, 31, 59, 90, 120, 151, 181, 212, 243, 273, 304, 334 >>
    IN  cum[(date \div 100) % 100] + (date % 100)

\* now()::date: the clock starts on 2026-01-31 and has two ticks to the day.
NowDay == DayNumber(20260131) + (clock \div 2)

\* where target_date >= now()::date - window_days [and station_id = %s]
InAnyWindow(e, window_days, station_id) ==
    station_id # NONE => e.station_id = station_id

InWindow(e, window_days, station_id) ==
    /\ DayNumber(e.target_date) >= NowDay - window_days
    /\ station_id # NONE => e.station_id = station_id

\* rows = cur.fetchall(), less the rows with a null error: every stored copy
\* of a row, in some order.
RECURSIVE FetchAll(_)
FetchAll(errors) ==
    IF BagToSet(errors) = {} THEN << >>
    ELSE LET e == CHOOSE x \in BagToSet(errors) : TRUE
         IN  << e >> \o FetchAll(errors (-) SetToBag({e}))

SelectErrors(window_days, station_id) ==
    SelectSeq(FetchAll(forecast_errors),
              LAMBDA e : /\ InWindow(e, window_days, station_id)
                         /\ e.error_f # NULL /\ e.abs_error_f # NULL)

\* by[(station_id, source, kind)]
GroupOf(rows, key) ==
    SelectSeq(rows, LAMBDA e : << e.station_id, e.source, e.kind >> = key)

GroupKeys(rows) ==
    {<< rows[i].station_id, rows[i].source, rows[i].kind >> : i \in 1..Len(rows)}

RECURSIVE SumSeq(_)
SumSeq(q) == IF q = << >> THEN 0 ELSE Head(q) + SumSeq(Tail(q))

ErrorsOf(vals)    == [i \in 1..Len(vals) |-> vals[i].error_f]
AbsErrorsOf(vals) == [i \in 1..Len(vals) |-> vals[i].abs_error_f]

\* The parameters of the insert for one (station, source, kind) group.  rmse is
\* the non-negative root of the fraction stored for it.
StatsRow(key, vals, window_days, now_ts) ==
    LET n == Len(vals)
        errors == ErrorsOf(vals)
        se == SortSeq(errors, LAMBDA a, b : a < b)
    IN  [station_id |-> key[1], source |-> key[2], kind |-> key[3],
         window_days |-> window_days, n |-> n,
         bias |-> << SumSeq(errors), n >>,
         mae  |-> << SumSeq(AbsErrorsOf(vals)), n >>,
         rmse |-> << SumSeq([i \in 1..n |-> errors[i] * errors[i]]), n >>,
         p10 |-> Percentile(se, 10), p50 |-> Percentile(se, 50),
         p90 |-> Percentile(se, 90), last_updated |-> now_ts]

StatsAt(stats, r) ==
    {x \in stats : /\ x.station_id = r.station_id /\ x.source = r.source
                   /\ x.kind = r.kind /\ x.window_days = r.window_days}

\* on conflict (station_id, source, kind, window_days) do update set n, bias,
\* mae, rmse, p10, p50, p90, last_updated
InsertStats(stats, r) == stats \cup {r}

UpsertStats(stats, r) == (stats \ StatsAt(stats, r)) \cup {r}

\* The 'both' row of a (station, source) pair with highs and lows:
\* mae = (mae_high + mae_low) / 2, n = min(len(highs), len(lows)).
BothRow(st_id, source, highs, lows, window_days, now_ts) ==
    LET sh == SumSeq(AbsErrorsOf(highs))
        sl == SumSeq(AbsErrorsOf(lows))
    IN  [station_id |-> st_id, source |-> source, kind |-> "both",
         window_days |-> window_days,
         n |-> Min2(Len(highs), Len(lows)),
         bias |-> NullRat,
         mae |-> << sh * Len(lows) + sl * Len(highs), 2 * Len(highs) * Len(lows) >>,
         rmse |-> NullRat, p10 |-> NullRat, p50 |-> NullRat, p90 |-> NullRat,
         last_updated |-> now_ts]

\* on conflict (station_id, source, kind, window_days) do update set n, mae,
\* last_updated
UpsertBoth(stats, r) ==
    IF StatsAt(stats, r) = {} THEN stats \cup {r}
    ELSE (stats \ StatsAt(stats, r)) \cup
         {[x EXCEPT !.n = r.n, !.mae = r.mae, !.last_updated = r.last_updated]
             : x \in StatsAt(stats, r)}

RECURSIVE UpsertAll(_, _)
UpsertAll(stats, todo) ==
    IF todo = {} THEN stats
    ELSE LET r == CHOOSE x \in todo : TRUE
         IN  UpsertAll(IF r.kind = "both" THEN UpsertBoth(stats, r)
                       ELSE UpsertStats(stats, r),
                       todo \ {r})

\* The both-rows, written for a pair that lacks one kind as well.
BothRowsAlways(by_keys, rows, window_days, now_ts) ==
    {BothRow(k[1], k[2], GroupOf(rows, << k[1], k[2], "high" >>),
             GroupOf(rows, << k[1], k[2], "low" >>), window_days, now_ts)
        : k \in by_keys}

\* for st_id, source in stations_sources: skip unless highs and lows
BothRows(by_keys, rows, window_days, now_ts) ==
    {BothRow(k[1], k[2], GroupOf(rows, << k[1], k[2], "high" >>),
             GroupOf(rows, << k[1], k[2], "low" >>), window_days, now_ts)
        : k \in {x \in by_keys :
                    /\ GroupOf(rows, << x[1], x[2], "high" >>) # << >>
                    /\ GroupOf(rows, << x[1], x[2], "low" >>) # << >>}}

\* update_error_stats(window_days=..., station_id=...): select, group, one
\* upsert per group, one per (station, source) with both kinds, commit.
UpdateErrorStatsResult(window_days, station_id) ==
    LET rows == SelectErrors(window_days, station_id)
        by_keys == GroupKeys(rows)
        now_ts == clock
        kinds == {StatsRow(k, GroupOf(rows, k), window_days, now_ts)
                     : k \in by_keys}
        boths == BothRows(by_keys, rows, window_days, now_ts)
    IN  UpsertAll(UpsertAll(error_stats, kinds), boths)

StatsMaxCalls == 2
StatsMaxDays  == 1
StatsWindows  == {1, 2}
StatsFilters  == {NONE, "KMDW", "KNYC"}

UpdateErrorStats(window_days, station_id) ==
    /\ pc[1] = "idle"
    /\ calls.stats < StatsMaxCalls
    /\ error_stats' = UpdateErrorStatsResult(window_days, station_id)
    \* the call returns nothing: ret keeps its arguments, whether the call
    \* before it was the same one, and the day it ran on
    /\ ret' = [ret EXCEPT ![1] =
                  [op |-> "update_error_stats", window_days |-> window_days,
                   station_id |-> station_id, now_day |-> NowDay,
                   again |-> /\ ret[1].op = "update_error_stats"
                             /\ ret[1].window_days = window_days
                             /\ ret[1].station_id = station_id
                             /\ ret[1].now_day = NowDay]]
    /\ calls' = [calls EXCEPT !.stats = @ + 1]
    /\ UNCHANGED << extVars, clock, schema, dbRunVars, dbObsVars, dbFcVars,
                    forecast_errors, pc, loc >>

\* The error table as scoring passes left it: rows of three runs (NWS twice,
\* OME_BASE once) for two stations and the two days before the first refresh.
StatsRuns ==
    {[run_id |-> 1, source |-> "NWS", issued_at |-> 1],
     [run_id |-> 2, source |-> "OME_BASE", issued_at |-> 1],
     [run_id |-> 3, source |-> "NWS", issued_at |-> 2]}

StatsRun(run_id) == CHOOSE r \in StatsRuns : r.run_id = run_id

StatsErrRows ==
    {ErrorRow(StatsRun(1), "KMDW", 20260131, "high", 21, 300, 294),
     ErrorRow(StatsRun(3), "KMDW", 20260131, "high", 20, 310, 294),
     ErrorRow(StatsRun(1), "KMDW", 20260130, "high", 45, 280, 300),
     ErrorRow(StatsRun(1), "KMDW", 20260130, "low", 36, 180, 171),
     ErrorRow(StatsRun(2), "KMDW", 20260131, "low", 12, 165, 171),
     ErrorRow(StatsRun(1), "KNYC", 20260130, "low", 36, 180, 171)}

InitStats ==
    \E rows \in SUBSET StatsErrRows :
        /\ clock = 0
        /\ schema = [has_new |-> FALSE, has_latest |-> FALSE, has_daily |-> TRUE]
        /\ run_seq = 3
        /\ forecast_runs = StatsRuns
        /\ fr_pending = [p \in Procs |-> {}]
        /\ obs_seq = 0
        /\ observation_runs = {}
        /\ observations_v2 = {}
        /\ observations = {}
        /\ obs_run_issued_at = [p \in Procs |-> NULL]
        /\ forecasts_daily = {}
        /\ forecasts = {}
        /\ forecast_errors = SetToBag(rows)
        /\ error_stats = {}
        /\ InitExt
        /\ NoMorningRun
        /\ pc = [p \in Procs |-> "idle"]
        /\ loc = [p \in Procs |-> NoCall]
        /\ ret = [p \in Procs |-> NoCall]
        /\ calls = [run |-> 0, obs |-> 0, fc |-> 0, build |-> 0, stats |-> 0]

\* The next day begins.
Midnight ==
    /\ clock \div 2 < StatsMaxDays
    /\ clock' = 2 * ((clock \div 2) + 1)
    /\ UNCHANGED << extVars, schema, dbRunVars, dbObsVars, dbFcVars, forecast_errors,
                    error_stats, pc, loc, ret, calls >>

NextStats ==
    \/ \E w \in StatsWindows, st \in StatsFilters : UpdateErrorStats(w, st)
    \/ Tick
    \/ Midnight

SpecStats == InitStats /\ [][NextStats]_vars

\* ------------------------------------------------------ stats aggregator claims
StatsStep == calls'.stats # calls.stats

\* The error rows inside the trailing window of a refresh run on day now_day.
WindowRows(w, st, now_day) ==
    {e \in BagToSet(forecast_errors) :
        /\ now_day - DayNumber(e.target_date) <= w
        /\ (st = NONE \/ e.station_id = st)}

GroupRows(rows, station_id, source, kind) ==
    {e \in rows : e.station_id = station_id /\ e.source = source /\ e.kind = kind}

RECURSIVE SumFn(_, _)
SumFn(f, S) ==
    IF S = {} THEN 0
    ELSE LET x == CHOOSE y \in S : TRUE IN f[x] + SumFn(f, S \ {x})

MeanOf(f, S) == << SumFn(f, S), Cardinality(S) >>

StatsRowsAt(stats, station_id, source, kind, w) ==
    {x \in stats : /\ x.station_id = station_id /\ x.source = source
                   /\ x.kind = kind /\ x.window_days = w}

\* n, bias, MAE and RMSE of a stats row are those of the group of error rows G.
StatsOfGroup(x, G) ==
    /\ x.n = Cardinality(G)
    /\ RatEq(x.bias, MeanOf([e \in G |-> e.error_f], G))
    /\ RatEq(x.mae, MeanOf([e \in G |-> Abs(e.error_f)], G))
    /\ RatEq(x.rmse, MeanOf([e \in G |-> e.error_f * e.error_f], G))

\* C16: after update_error_stats(w) every (station, source, kind) group with
\* error rows inside the trailing window (and at the filtered station) has one
\* error_stats row keyed (station, source, kind, w) whose n is the number of
\* those rows, bias their mean error, MAE their mean absolute error and RMSE
\* the root of their mean squared error; older rows count for nothing.
StatsComputed ==
    [][StatsStep =>
          LET a == ret'[1]
              rows == WindowRows(a.window_days, a.station_id, a.now_day)
          IN  \A st \in Stations, src \in RunSources, k \in Kinds :
                 LET G == GroupRows(rows, st, src, k)
                     X == StatsRowsAt(error_stats', st, src, k, a.window_days)
                 IN  G # {} =>
                        /\ Cardinality(X) = 1
                        /\ \A x \in X : StatsOfGroup(x, G)
       ]_vars

\* A one-day refresh on 2026-02-01 counted the two KMDW / NWS highs of
\* 2026-01-31 (errors 0.6 and 1.6) and left out the one of 2026-01-30.
StatsWitness ==
    /\ ret[1].op = "update_error_stats"
    /\ ret[1].window_days = 1
    /\ ret[1].now_day = DayNumber(20260201)
    /\ Cardinality(GroupRows(BagToSet(forecast_errors), "KMDW", "NWS", "high")) = 3
    /\ \E x \in StatsRowsAt(error_stats, "KMDW", "NWS", "high", 1) :
          /\ x.n = 2
          /\ x.bias = << 22, 2 >> /\ x.mae = << 22, 2 >> /\ x.rmse = << 292, 2 >>

\* C18: update_error_stats writes the 'both' row of a (station, source) pair
\* exactly when the pair has a high and a low error row in the window: then
\* the row has mae = (MAE_high + MAE_low) / 2 and n = min(n_high, n_low);
\* otherwise the call neither creates nor changes a 'both' row of the pair.
BothRowWritten ==
    [][StatsStep =>
          LET a == ret'[1]
              rows == WindowRows(a.window_days, a.station_id, a.now_day)
          IN  \A st \in Stations, src \in RunSources :
                 LET H == GroupRows(rows, st, src, "high")
                     L == GroupRows(rows, st, src, "low")
                     X == StatsRowsAt(error_stats', st, src, "both", a.window_days)
                 IN  IF H # {} /\ L # {}
                     THEN /\ Cardinality(X) = 1
                          /\ \A x \in X :
                                /\ x.n = Min2(Cardinality(H), Cardinality(L))
                                /\ x.last_updated = clock
                                /\ RatEq(x.mae,
                                     << SumFn([e \in H |-> Abs(e.error_f)], H)
                                          * Cardinality(L)
                                        + SumFn([e \in L |-> Abs(e.error_f)], L)
                                          * Cardinality(H),
                                        2 * Cardinality(H) * Cardinality(L) >>)
                     ELSE X = StatsRowsAt(error_stats, st, src, "both",
                                          a.window_days)
       ]_vars

\* KMDW / NWS with three highs (MAE 1.4) and one low (MAE 0.9): the 'both' row
\* has n = 1 and mae = 1.15; KMDW / OME_BASE has a low only and no 'both' row.
BothRowWitness ==
    /\ ret[1].op = "update_error_stats"
    /\ \E x \in StatsRowsAt(error_stats, "KMDW", "NWS", "both", 2) :
          x.n = 1 /\ RatEq(x.mae, << 23, 2 >>)
    /\ StatsRowsAt(error_stats, "KMDW", "OME_BASE", "low", 2) # {}
    /\ StatsRowsAt(error_stats, "KMDW", "OME_BASE", "both", 2) = {}

\* C19: after update_error_stats(w) every error_stats row of window w (of the
\* filtered station, or of any station) carries the statistics of the error
\* rows now inside the trailing window: its group, or for a 'both' row its
\* highs and its lows, still has rows there.
StatsFullyRecomputed ==
    [][StatsStep =>
          LET a == ret'[1]
              rows == WindowRows(a.window_days, a.station_id, a.now_day)
          IN  \A x \in error_stats' :
                 ( /\ x.window_days = a.window_days
                   /\ (a.station_id = NONE \/ x.station_id = a.station_id) )
                 => IF x.kind = "both"
                    THEN /\ GroupRows(rows, x.station_id, x.source, "high") # {}
                         /\ GroupRows(rows, x.station_id, x.source, "low") # {}
                         /\ x.n = Min2(
                               Cardinality(GroupRows(rows, x.station_id,
                                                     x.source, "high")),
                               Cardinality(GroupRows(rows, x.station_id,
                                                     x.source, "low")))
                    ELSE /\ GroupRows(rows, x.station_id, x.source, x.kind) # {}
                         /\ StatsOfGroup(x, GroupRows(rows, x.station_id,
                                                      x.source, x.kind))
       ]_vars

Masked(stats) == {[x EXCEPT !.last_updated = 0] : x \in stats}

\* C20: a second update_error_stats with the same window and station filter,
\* on the same day over the same error rows, changes no field but last_updated
\* and adds no row; there is one row per (station, source, kind, window_days);
\* and no call changes a row of another window or, under a station filter, of
\* another station.
StatsRepeatable ==
    /\ [](\A x, y \in error_stats :
             ( /\ x.station_id = y.station_id /\ x.source = y.source
               /\ x.kind = y.kind /\ x.window_days = y.window_days ) => x = y)
    /\ [][StatsStep =>
            LET a == ret'[1]
                Others(stats) ==
                    {x \in stats :
                        \/ x.window_days # a.window_days
                        \/ (a.station_id # NONE /\ x.station_id # a.station_id)}
            IN  /\ Others(error_stats') = Others(error_stats)
                /\ a.again =>
                      /\ Masked(error_stats') = Masked(error_stats)
                      /\ Cardinality(error_stats') = Cardinality(error_stats)
         ]_vars

\* The same refresh twice on one day, half a day apart: the rows of its window
\* carry the later timestamp, next to rows of the other window.
StatsRepeated ==
    /\ ret[1].op = "update_error_stats"
    /\ ret[1].again
    /\ clock = 1
    /\ \E x \in error_stats :
          x.window_days = ret[1].window_days /\ x.last_updated = 1
    /\ \E x \in error_stats : x.kind = "both"

\* ------------------------------------------------- morning: payload shape
\* A Python value inside a collector's payload, as <<type name, literal>>.
PyNone == <<"NoneType", "None">>

\* float('nan') and float('inf'), next to the finite values in tenths.
FloatNaN == 100001
FloatInf == 100002

\* str.strip()
Strip(s) ==
    CASE s = " 30.1 " -> "30.1"
      [] s = "  " -> ""
      [] s = " 2026-02-01T06:00:00Z " -> "2026-02-01T06:00:00Z"
      [] OTHER -> s

\* len(s)
StrLen(s) ==
    CASE s = "" -> 0
      [] s = "20260131" -> 8
      [] s = "2026-01-31" -> 10
      [] s \in {"2026-01-30", "2026-03-07", "2026-03-08", "2026-03-09"} -> 10
      [] s = "2026-13-45" -> 10
      [] s = "2026-01-30T00:00:00Z" -> 20

\* s[:10]
Prefix10(s) ==
    CASE s = "2026-01-30T00:00:00Z" -> "2026-01-30"
      [] OTHER -> s

\* float(s): the literals float() accepts, and their values; it raises
\* ValueError on any other text.
FloatLiterals == {"29.4", "30.1", "18", "17.5", "nan", "inf"}

FloatOf(s) ==
    CASE s = "29.4" -> 294
      [] s = "30.1" -> 301
      [] s = "18"   -> 180
      [] s = "17.5" -> 175
      [] s = "nan"  -> FloatNaN
      [] s = "inf"  -> FloatInf

\* _coerce_float: float(x) of an int or float, float(s) of a non-blank
\* string, ValueError otherwise.
CoerceFloat(x) ==
    IF x[1] \in {"int", "float"}
    THEN [raised |-> FALSE, value |-> FloatOf(x[2])]
    ELSE IF x[1] = "str" /\ Strip(x[2]) # "" /\ Strip(x[2]) \in FloatLiterals
    THEN [raised |-> FALSE, value |-> FloatOf(Strip(x[2]))]
    ELSE [raised |-> TRUE, value |-> NULL]

\* The loop of _normalize_daily over payload["daily"].
RECURSIVE NormalizeDailyRows(_)
NormalizeDailyRows(daily) ==
    IF daily = << >> THEN << >>
    ELSE LET r == Head(daily)
             td == r.target_date
             high_f == CoerceFloat(r.high_f)
             low_f == CoerceFloat(r.low_f)
             rest == NormalizeDailyRows(Tail(daily))
         IN  IF r.ty # "dict" THEN rest
             ELSE IF td[1] # "str" \/ StrLen(td[2]) < 10 THEN rest
             ELSE IF high_f.raised \/ low_f.raised THEN rest
             ELSE << [target_date |-> Prefix10(td[2]),
                      high_f |-> high_f.value, low_f |-> low_f.value] >>
                  \o rest

\* _normalize_daily: ValueError unless payload["daily"] is a list.
NormalizeDaily(payload) ==
    IF payload.daily.ty # "list"
    THEN [raised |-> TRUE, rows |-> << >>]
    ELSE [raised |-> FALSE, rows |-> NormalizeDailyRows(payload.daily.rows)]

\* float(val) of an hourly value; a None or a value float() rejects leaves
\* the key out of the row, which main reads back as None.
HourlyFloat(x) ==
    IF x[1] \in {"int", "float"} THEN FloatOf(x[2])
    ELSE IF x[1] = "str" /\ Strip(x[2]) \in FloatLiterals
    THEN FloatOf(Strip(x[2]))
    ELSE NULL

\* The loop of _normalize_hourly_arrays over the first m entries; of the
\* seven series, all treated alike, the temperature is kept.
RECURSIVE NormalizeHourlyRows(_, _, _, _)
NormalizeHourlyRows(times, series, i, m) ==
    IF i > m THEN << >>
    ELSE LET vt == times[i]
             rest == NormalizeHourlyRows(times, series, i + 1, m)
         IN  IF vt[1] # "str" \/ Strip(vt[2]) = "" THEN rest
             ELSE << [valid_time |-> Strip(vt[2]),
                      temperature_f |-> IF series.ty = "list"
                                        THEN HourlyFloat(series.vals[i])
                                        ELSE NULL] >> \o rest

\* _normalize_hourly_arrays: no rows without "hourly" or without times,
\* ValueError when "hourly" is present and not an object.
NormalizeHourlyArrays(payload) ==
    LET hourly == payload.hourly
        m == IF hourly.temperature_f.ty = "list"
                /\ Len(hourly.temperature_f.vals) < Len(hourly.time)
             THEN Len(hourly.temperature_f.vals) ELSE Len(hourly.time)
    IN  IF hourly.ty = "NoneType" THEN [raised |-> FALSE, rows |-> << >>]
        ELSE IF hourly.ty # "dict" THEN [raised |-> TRUE, rows |-> << >>]
        ELSE [raised |-> FALSE,
              rows |-> NormalizeHourlyRows(hourly.time, hourly.temperature_f,
                                           1, m)]

SchemaRaised ==
    [raised |-> TRUE, issued_at |-> "", daily_rows |-> << >>,
     hourly_rows |-> << >>]

\* A normalizer that accepts any payload and keeps what it can read.
NormalizePayloadLenient(raw) ==
    [raised |-> FALSE,
     issued_at |-> IF raw.ty = "dict" /\ raw.issued_at[1] = "str"
                   THEN Strip(raw.issued_at[2]) ELSE "",
     daily_rows |-> IF raw.ty = "dict" /\ raw.daily.ty = "list"
                    THEN NormalizeDailyRows(raw.daily.rows) ELSE << >>,
     hourly_rows |-> << >>]

\* _normalize_payload_strict: ValueError unless raw is a dict whose issued_at
\* is a non-blank string and whose daily is a list.
NormalizePayloadStrict(raw) ==
    IF raw.ty # "dict" THEN SchemaRaised
    ELSE IF ~(raw.issued_at[1] = "str" /\ Strip(raw.issued_at[2]) # "")
    THEN SchemaRaised
    ELSE IF NormalizeDaily(raw).raised \/ NormalizeHourlyArrays(raw).raised
    THEN SchemaRaised
    ELSE [raised |-> FALSE,
          issued_at |-> Strip(raw.issued_at[2]),
          daily_rows |-> NormalizeDaily(raw).rows,
          hourly_rows |-> NormalizeHourlyArrays(raw).rows]

\* ---------------------------------------------------- normalizer alone
MaxDailyRows == 2

\* Entries of payload["daily"]: well-formed rows with numbers and with
\* numeric strings, an entry that is not an object, dates that are too
\* short, not a string or not on the calendar, a missing low, a word for a
\* high, and temperatures that are nan or inf.
DailyRowInputs ==
    { [ty |-> "dict", target_date |-> <<"str", "2026-01-31">>,
       high_f |-> <<"float", "29.4">>, low_f |-> <<"int", "18">>],
      [ty |-> "dict", target_date |-> <<"str", "2026-01-30T00:00:00Z">>,
       high_f |-> <<"str", " 30.1 ">>, low_f |-> <<"str", "17.5">>],
      [ty |-> "str", target_date |-> PyNone, high_f |-> PyNone,
       low_f |-> PyNone],
      [ty |-> "dict", target_date |-> <<"str", "20260131">>,
       high_f |-> <<"float", "29.4">>, low_f |-> <<"int", "18">>],
      [ty |-> "dict", target_date |-> <<"int", "20260131">>,
       high_f |-> <<"float", "29.4">>, low_f |-> <<"int", "18">>],
      [ty |-> "dict", target_date |-> <<"str", "2026-13-45">>,
       high_f |-> <<"float", "29.4">>, low_f |-> <<"int", "18">>],
      [ty |-> "dict", target_date |-> <<"str", "2026-01-31">>,
       high_f |-> <<"float", "29.4">>, low_f |-> PyNone],
      [ty |-> "dict", target_date |-> <<"str", "2026-01-31">>,
       high_f |-> <<"str", "warm">>, low_f |-> <<"int", "18">>],
      [ty |-> "dict", target_date |-> <<"str", "2026-01-31">>,
       high_f |-> <<"str", "  ">>, low_f |-> <<"int", "18">>],
      [ty |-> "dict", target_date |-> <<"str", "2026-01-31">>,
       high_f |-> <<"float", "nan">>, low_f |-> <<"int", "18">>],
      [ty |-> "dict", target_date |-> <<"str", "2026-01-31">>,
       high_f |-> <<"str", "nan">>, low_f |-> <<"int", "18">>],
      [ty |-> "dict", target_date |-> <<"str", "2026-01-31">>,
       high_f |-> <<"float", "29.4">>, low_f |-> <<"float", "inf">>] }

DailyInputs ==
    {[ty |-> "list", rows |-> rows] :
        rows \in UNION {[1..n -> DailyRowInputs] : n \in 0..MaxDailyRows}}
    \cup {[ty |-> "NoneType", rows |-> << >>], [ty |-> "dict", rows |-> << >>]}

NoHourly ==
    [ty |-> "NoneType", time |-> << >>,
     temperature_f |-> [ty |-> "NoneType", vals |-> << >>]]

HourlyInputs ==
    { NoHourly,
      [ty |-> "list", time |-> << >>,
       temperature_f |-> [ty |-> "NoneType", vals |-> << >>]],
      [ty |-> "dict",
       time |-> << <<"str", "2026-01-31T00:00">>, <<"str", "  ">>,
                   <<"str", "2026-01-31T02:00">> >>,
       temperature_f |-> [ty |-> "list",
                          vals |-> << <<"float", "17.5">>, PyNone,
                                      <<"str", "warm">> >>]] }

IssuedAtInputs ==
    { <<"str", " 2026-02-01T06:00:00Z ">>, <<"str", "  ">>, PyNone,
      <<"int", "18">> }

NormalizeInputs ==
    {[ty |-> "dict", issued_at |-> i, daily |-> d, hourly |-> h] :
        i \in IssuedAtInputs, d \in DailyInputs, h \in HourlyInputs}
    \cup {[ty |-> t, issued_at |-> PyNone,
           daily |-> [ty |-> "NoneType", rows |-> << >>], hourly |-> NoHourly] :
             t \in {"list", "NoneType"}}

InitNormalize ==
    \E raw \in NormalizeInputs :
        InitDbArgs([op |-> "_normalize_payload_strict", raw |-> raw])

ApplyNormalize ==
    /\ pc[1] = "called"
    /\ loc[1].op = "_normalize_payload_strict"
    /\ ret' = [ret EXCEPT ![1] =
                  [op |-> "_normalize_payload_strict", raw |-> loc[1].raw,
                   result |-> NormalizePayloadStrict(loc[1].raw)]]
    /\ pc' = [pc EXCEPT ![1] = "idle"]
    /\ loc' = [loc EXCEPT ![1] = NoCall]
    /\ UNCHANGED << extVars, clock, schema, dbRunVars, dbObsVars, dbFcVars,
                    forecast_errors, error_stats, calls >>

NextNormalize == ApplyNormalize

SpecNormalize == InitNormalize /\ [][NextNormalize]_vars

\* ------------------------------------------------------ normalizer claims
CalendarDates == {"2026-01-30", "2026-01-31"}

FiniteTenths == {294, 301, 180, 175}

\* What an entry of "daily" stands for when it passes row-level validation:
\* its calendar date and its two finite temperatures.
ValidDailyRows ==
    [ty |-> "dict", target_date |-> <<"str", "2026-01-31">>,
     high_f |-> <<"float", "29.4">>, low_f |-> <<"int", "18">>]
        :> [target_date |-> "2026-01-31", high_f |-> 294, low_f |-> 180]
    @@
    [ty |-> "dict", target_date |-> <<"str", "2026-01-30T00:00:00Z">>,
     high_f |-> <<"str", " 30.1 ">>, low_f |-> <<"str", "17.5">>]
        :> [target_date |-> "2026-01-30", high_f |-> 301, low_f |-> 175]

RECURSIVE KeptRows(_)
KeptRows(daily) ==
    IF daily = << >> THEN << >>
    ELSE IF Head(daily) \in DOMAIN ValidDailyRows
    THEN << ValidDailyRows[Head(daily)] >> \o KeptRows(Tail(daily))
    ELSE KeptRows(Tail(daily))

\* C24: every daily row the normalizer outputs has a calendar date as
\* target_date and finite high and low; an entry that fails row-level
\* validation is dropped without raising and the other entries are kept, in
\* order.
DailyRowsWellFormed ==
    ( /\ ret[1].op = "_normalize_payload_strict"
      /\ ret[1].raw.ty = "dict"
      /\ ret[1].raw.issued_at = <<"str", " 2026-02-01T06:00:00Z ">>
      /\ ret[1].raw.daily.ty = "list"
      /\ ret[1].raw.hourly.ty # "list" )
    => LET out == ret[1].result.daily_rows
       IN  /\ ~ret[1].result.raised
           /\ \A i \in 1..Len(out) :
                 /\ out[i].target_date \in CalendarDates
                 /\ out[i].high_f \in FiniteTenths
                 /\ out[i].low_f \in FiniteTenths
           /\ out = KeptRows(ret[1].raw.daily.rows)

\* --------------------------------------------------- morning: fetch and retry
MAX_ATTEMPTS == 4

\* An exception as _is_retryable_error sees it: its class, the status code of
\* an HTTPError's response (NULL without a response), and which of the
\* phrases the code looks for occur in str(e).lower().
NoErr      == [cls |-> "None", code |-> NULL, phrases |-> {}]
ValueError == [cls |-> "ValueError", code |-> NULL, phrases |-> {}]

RetryHints ==
    {"timed out", "timeout", "temporarily", "try again", "connection reset",
     "service unavailable", "internal server error", "bad gateway",
     "gateway timeout", "too many requests", "rate limit"}

\* _is_retryable_error
IsRetryableError(e) ==
    IF e.cls \in {"Timeout", "ConnectionError"} THEN TRUE
    ELSE IF e.cls = "HTTPError"
    THEN IF e.code = NULL THEN TRUE ELSE e.code = 429 \/ e.code >= 500
    ELSE e.phrases \cap RetryHints # {}

\* attempt >= MAX_ATTEMPTS, and a loop that allows one attempt more.
OneMoreAttempt(attempt) == attempt >= MAX_ATTEMPTS + 1

LastAttempt(attempt) == attempt >= MAX_ATTEMPTS

\* What one invocation of a fetcher does: it returns a payload or raises.
NoRaw == [ty |-> "none"]

Returns(raw) == [kind |-> "return", raw |-> raw, e |-> NoErr]
Raises(cls, code, phrases) ==
    [kind |-> "raise", raw |-> NoRaw,
     e |-> [cls |-> cls, code |-> code, phrases |-> phrases]]

\* A future of _fetch_one as submitted: running, the fetcher not yet invoked.
Submitted ==
    [state |-> "running", attempt |-> 0, outcomes |-> << >>,
     result |-> [issued_at |-> "", daily_rows |-> << >>,
                 hourly_rows |-> << >>, err |-> NoErr]]

\* The tuple _fetch_one returns from its except clause.
FailResult(e) ==
    [issued_at |-> "", daily_rows |-> << >>, hourly_rows |-> << >>, err |-> e]

\* One iteration of the loop of _call_fetcher_with_retry inside _fetch_one for
\* task t = <<station_id, source_id>>: the fetcher is invoked under the
\* provider's semaphore, which is released when it returns or raises.  A
\* returned payload ends the loop and is normalized; an exception on the last
\* attempt or one that is not retryable is re-raised and caught by _fetch_one;
\* any other exception is followed by a sleep and the next iteration.
FetcherCall(t, o) ==
    /\ t \in DOMAIN tasks
    /\ tasks[t].state = "running"
    /\ LET attempt == tasks[t].attempt + 1
           norm == NormalizePayloadStrict(o.raw)
           Done(result) ==
               [state |-> "done", attempt |-> attempt,
                outcomes |-> Append(tasks[t].outcomes, o), result |-> result]
       IN  tasks' = [tasks EXCEPT ![t] =
               IF o.kind = "return"
               THEN IF norm.raised
                    THEN Done(FailResult(ValueError))
                    ELSE Done([issued_at |-> norm.issued_at,
                               daily_rows |-> norm.daily_rows,
                               hourly_rows |-> norm.hourly_rows,
                               err |-> NoErr])
               ELSE IF LastAttempt(attempt) \/ ~IsRetryableError(o.e)
               THEN Done(FailResult(o.e))
               ELSE [@ EXCEPT !.attempt = attempt,
                              !.outcomes = Append(@, o)]]
    /\ UNCHANGED << clock, schema, dbRunVars, dbObsVars, dbFcVars,
                    forecast_errors, error_stats, locations,
                    forecast_extras_hourly, forecast_revisions, main, pc, loc,
                    ret, calls, poolVars >>

\* Payloads a fetcher returns: one daily row and one hourly row, a list
\* instead of an object, an object without issued_at, an object whose daily is
\* not a list.
GoodPayload ==
    [ty |-> "dict", issued_at |-> <<"str", "2026-02-01T06:00:00Z">>,
     daily |-> [ty |-> "list",
                rows |-> << [ty |-> "dict",
                             target_date |-> <<"str", "2026-01-31">>,
                             high_f |-> <<"float", "29.4">>,
                             low_f |-> <<"int", "18">>] >>],
     hourly |-> [ty |-> "dict",
                 time |-> << <<"str", "2026-01-31T00:00">> >>,
                 temperature_f |-> [ty |-> "list",
                                    vals |-> << <<"float", "17.5">> >>]]]

NotAnObject ==
    [ty |-> "list", issued_at |-> PyNone,
     daily |-> [ty |-> "NoneType", rows |-> << >>], hourly |-> NoHourly]

NoIssuedAt == [GoodPayload EXCEPT !.issued_at = PyNone]

DailyNotAList ==
    [GoodPayload EXCEPT !.daily = [ty |-> "NoneType", rows |-> << >>]]

\* What a fetcher can do on one invocation: requests' Timeout and
\* ConnectionError, raise_for_status() with 404, 429, 500 and 503, an
\* HTTPError built without a response, a collector's RuntimeError with and
\* without one of the phrases, or a payload.
FetchOutcomes ==
    { Returns(GoodPayload), Returns(NotAnObject), Returns(DailyNotAList),
      Raises("Timeout", NULL, {"timed out"}),
      Raises("ConnectionError", NULL, {"connection reset"}),
      Raises("HTTPError", 404, {}),
      Raises("HTTPError", 429, {"429", "too many requests"}),
      Raises("HTTPError", 503, {"service unavailable"}),
      Raises("HTTPError", NULL, {}),
      Raises("RuntimeError", NULL, {}),
      Raises("RuntimeError", NULL, {"try again"}) }

FetchTask == <<"KNYC", "OME_BASE">>

\* _fetch_one called for one station and one source.
InitFetch ==
    /\ InitTables(FALSE, FALSE, TRUE)
    /\ tasks = (FetchTask :> Submitted)
    /\ main = [pc |-> "none"]
    /\ executor = NoExecutor
    /\ provider_limits = PROVIDER_LIMITS

NextFetch == \E o \in FetchOutcomes : FetcherCall(FetchTask, o)

SpecFetch == InitFetch /\ [][NextFetch]_vars

\* Every invocation returns or raises: requests is called with a timeout, and
\* the sleep between attempts is at most 15 seconds.
SpecFetchFair == SpecFetch /\ WF_vars(NextFetch)

\* ------------------------------------------------------------ fetch claims
\* C22: the fetcher of a task is invoked at most 4 times; the task then ends
\* and stays ended; it ends on its first returned payload, whose rows it
\* carries, or with the error of its last invocation as the failure of that
\* task; and every task ends.
RetryCapped ==
    /\ [](\A t \in DOMAIN tasks :
             LET os == tasks[t].outcomes
                 n == Len(os)
                 res == tasks[t].result
             IN  /\ n <= 4
                 /\ tasks[t].attempt = n
                 /\ tasks[t].state = "running" =>
                       /\ n < 4
                       /\ \A i \in 1..n : os[i].kind = "raise"
                 /\ tasks[t].state = "done" =>
                       /\ n >= 1
                       /\ \A i \in 1..(n - 1) : os[i].kind = "raise"
                       /\ os[n].kind = "raise" =>
                             res = [issued_at |-> "", daily_rows |-> << >>,
                                    hourly_rows |-> << >>, err |-> os[n].e]
                       /\ os[n] = Returns(GoodPayload) =>
                             /\ res.err.cls = "None"
                             /\ res.issued_at = "2026-02-01T06:00:00Z"
                             /\ res.daily_rows =
                                   << [target_date |-> "2026-01-31",
                                       high_f |-> 294, low_f |-> 180] >>)
    /\ [][\A t \in DOMAIN tasks :
             tasks[t].state = "done" => tasks'[t] = tasks[t]]_vars
    /\ <>(\A t \in DOMAIN tasks : tasks[t].state = "done")

\* Four invocations, each failing in a retryable way, the first with a
\* connection error and the last with a timeout: the task failed with the
\* timeout.
RetryExhausted ==
    /\ tasks[FetchTask].state = "done"
    /\ tasks[FetchTask].attempt = 4
    /\ tasks[FetchTask].outcomes[1].e.cls = "ConnectionError"
    /\ tasks[FetchTask].outcomes[4].e.cls = "Timeout"
    /\ tasks[FetchTask].result.err.cls = "Timeout"

\* C23: an invocation that fails with an HTTP 4xx status other than 429, or
\* returns a malformed payload, ends the task as failed, with no further
\* invocation; and when a task goes on to another attempt, the invocation
\* before it failed with a timeout, a connection error, HTTP 429 or HTTP 5xx.
OnlyTransientRetried ==
    [][\A t \in DOMAIN tasks :
          tasks'[t].attempt # tasks[t].attempt =>
             LET o == tasks'[t].outcomes[Len(tasks'[t].outcomes)]
                 http4xx == /\ o.kind = "raise"
                            /\ o.e.cls = "HTTPError"
                            /\ o.e.code >= 400 /\ o.e.code < 500
                            /\ o.e.code # 429
                 malformed == /\ o.kind = "return"
                              /\ o.raw \in {NotAnObject, DailyNotAList}
                 transient == /\ o.kind = "raise"
                              /\ \/ o.e.cls \in {"Timeout", "ConnectionError"}
                                 \/ /\ o.e.cls = "HTTPError"
                                    /\ (o.e.code = 429 \/ o.e.code >= 500)
             IN  /\ (http4xx \/ malformed) =>
                       /\ tasks'[t].state = "done"
                       /\ tasks'[t].result.err.cls # "None"
                 /\ tasks'[t].state = "running" => transient
      ]_vars

\* ------------------------------------------------------------------ locations
\* A station dict: every attribute is written as text, None is NONE, and a key
\* the dict does not have is ABSENT.
ABSENT == "<absent>"

\* station.get(k) and station.get(k, default)
DictGet(v) == IF v = ABSENT THEN NONE ELSE v
DictGetOr(v, default) == IF v = ABSENT THEN default ELSE v

\* coalesce(excluded.x, public.locations.x) on a text column
CoalesceText(new, old) == IF new # NONE THEN new ELSE old

\* on conflict (station_id) do update set x = excluded.x
OverwriteLocation(rows, new) ==
    {r \in rows : r.station_id # new.station_id} \cup {new}

\* insert into public.locations ... on conflict (station_id) do update set
\* x = coalesce(excluded.x, public.locations.x) for each of the seven
\* attributes
UpsertLocationRow(rows, new) ==
    LET hit == {r \in rows : r.station_id = new.station_id}
    IN  IF hit = {} THEN rows \cup {new}
        ELSE (rows \ hit) \cup
             {[station_id |-> r.station_id,
               name |-> CoalesceText(new.name, r.name),
               state |-> CoalesceText(new.state, r.state),
               timezone |-> CoalesceText(new.timezone, r.timezone),
               lat |-> CoalesceText(new.lat, r.lat),
               lon |-> CoalesceText(new.lon, r.lon),
               elevation_ft |-> CoalesceText(new.elevation_ft, r.elevation_ft),
               is_active |-> CoalesceText(new.is_active, r.is_active)]
                 : r \in hit}

\* The parameters upsert_location passes for a station dict.
LocationParams(station) ==
    [station_id |-> station.station_id,
     name |-> DictGet(station.name),
     state |-> DictGet(station.state),
     timezone |-> DictGet(station.timezone),
     lat |-> DictGet(station.lat),
     lon |-> DictGet(station.lon),
     elevation_ft |-> DictGet(station.elevation_ft),
     is_active |-> DictGetOr(station.is_active, "True")]

\* upsert_location(station): one statement on its own connection, committed.
UpsertLocation(station) ==
    /\ locations' = UpsertLocationRow(locations, LocationParams(station))
    /\ ret' = [ret EXCEPT ![1] = [op |-> "upsert_location",
                                  station |-> station]]
    /\ UNCHANGED << clock, schema, dbRunVars, dbObsVars, dbFcVars,
                    forecast_errors, error_stats, forecast_extras_hourly,
                    forecast_revisions, tasks, main, pc, loc, calls, poolVars >>

\* Station dicts of the callers: the entries of config.STATIONS as
\* morning.main passes them, the dict fetch_observations_for_station builds
\* from a station that lacks some keys (None for each), and dicts that leave
\* keys out or rename the station.
LocationInputs ==
    {[station_id |-> "KNYC", name |-> n[1], state |-> n[2], timezone |-> tz,
      lat |-> g[1], lon |-> g[2], elevation_ft |-> g[3], is_active |-> a] :
        n \in {<<"NYC Central Park", "NY">>, <<"Central Park", NONE>>,
               <<NONE, NONE>>, <<ABSENT, ABSENT>>},
        tz \in {"America/New_York", NONE},
        g \in {<<"40.78", "-73.97", "154">>, <<NONE, NONE, NONE>>},
        a \in {"True", "False", NONE, ABSENT}}
    \cup
    {[station_id |-> "KMDW", name |-> n, state |-> "IL",
      timezone |-> "America/Chicago", lat |-> "41.78", lon |-> "-87.76",
      elevation_ft |-> NONE, is_active |-> "True"] :
        n \in {"Chicago Midway", NONE}}

InitLocations == InitDb(FALSE, FALSE, TRUE)

NextLocations == \E station \in LocationInputs : UpsertLocation(station)

SpecLocations == InitLocations /\ [][NextLocations]_vars

\* ------------------------------------------------------------ location claims
LocationAttrs ==
    {"name", "state", "timezone", "lat", "lon", "elevation_ft", "is_active"}

\* The value a call supplies for an attribute: the one in the dict, None for a
\* missing key, True for a missing is_active.
Supplied(station, k) ==
    IF station[k] # ABSENT THEN station[k]
    ELSE IF k = "is_active" THEN "True" ELSE NONE

\* C26: after upsert_location(station) there is exactly one locations row for
\* the station; each attribute holds the value the call supplied, or, where
\* the call supplied null, what was stored before (null if nothing was); and
\* the rows of the other stations are as before.  So each attribute is the
\* most recent non-null value supplied for it.
LocationKeepsKnown ==
    [][ret'[1] # ret[1] \/ locations' # locations =>
          LET station == ret'[1].station
              old == {r \in locations : r.station_id = station.station_id}
              new == {r \in locations' : r.station_id = station.station_id}
          IN  /\ Cardinality(new) = 1
              /\ Cardinality(old) <= 1
              /\ \A r \in new : \A k \in LocationAttrs :
                    r[k] = IF Supplied(station, k) # NONE
                           THEN Supplied(station, k)
                           ELSE IF old = {} THEN NONE
                           ELSE (CHOOSE o \in old : TRUE)[k]
              /\ locations' \ new = locations \ old
      ]_vars

\* A call with null name, timezone and coordinates on a station stored with
\* all of them: the row still has them.
LocationNullKept ==
    /\ ret[1].op = "upsert_location"
    /\ ret[1].station.station_id = "KNYC"
    /\ ret[1].station.name = NONE
    /\ ret[1].station.timezone = NONE
    /\ ret[1].station.lat = NONE
    /\ ret[1].station.is_active = NONE
    /\ \E r \in locations :
          /\ r.station_id = "KNYC"
          /\ r.name = "Central Park"
          /\ r.timezone = "America/New_York"
          /\ r.lat = "40.78"
          /\ r.is_active = "False"
    /\ \E r \in locations : r.station_id = "KMDW"

\* ------------------------------------------------------------------ lead time
\* Local civil-time anchors of the two kinds, in hours after local midnight.
HighAnchorHour == 15
LowAnchorHour  == 6

\* Day of the year 2026 of a target date, counted from 0.
DayOfYear(target_date) ==
    CASE target_date = "2026-01-30" -> 29
      [] target_date = "2026-01-31" -> 30
      [] target_date = "2026-03-07" -> 65
      [] target_date = "2026-03-08" -> 66
      [] target_date = "2026-03-09" -> 67

\* Hours from 2026-01-01T00:00Z to the instant an issued_at string denotes.
UtcHourOf(issued_at) ==
    CASE issued_at = "2026-02-01T06:00:00Z" -> 31 * 24 + 6
      [] issued_at = "2026-02-01T07:00:00Z" -> 31 * 24 + 7
      [] issued_at = "2026-03-08T05:00:00Z" -> 66 * 24 + 5
      [] issued_at = "2026-03-08T22:00:00Z" -> 66 * 24 + 22

\* Standard-time offset of a zone from UTC, in hours, whatever the date.
StandardOffset(tz, day, hour) ==
    CASE tz = "America/New_York" -> -5
      [] tz = "America/Chicago"  -> -6

\* Offset from UTC in effect in a zone at a local civil time: daylight time
\* begins on 2026-03-08 at 02:00 local.
UtcOffset(tz, day, hour) ==
    IF day > 66 \/ (day = 66 /\ hour >= 3)
    THEN StandardOffset(tz, day, hour) + 1
    ELSE StandardOffset(tz, day, hour)

\* etl_utils.compute_lead_hours: hours from issuance to the anchor of the kind
\* on the target date, taken as local time of the station's zone.
ComputeLeadHours(station_tz, issued_at, target_date, kind) ==
    LET hour == IF kind = "high" THEN HighAnchorHour ELSE LowAnchorHour
        day == DayOfYear(target_date)
    IN  (day * 24 + hour - UtcOffset(station_tz, day, hour))
        - UtcHourOf(issued_at)

\* ------------------------------------------------------- morning: main
\* config.STATIONS, as station dicts.
StationConfig(station_id) ==
    CASE station_id = "KNYC" ->
            [station_id |-> "KNYC", name |-> "NYC Central Park",
             state |-> "NY", timezone |-> "America/New_York",
             lat |-> "40.78", lon |-> "-73.97", elevation_ft |-> "154",
             is_active |-> "True"]
      [] station_id = "KMDW" ->
            [station_id |-> "KMDW", name |-> "Chicago Midway Airport",
             state |-> "IL", timezone |-> "America/Chicago",
             lat |-> "41.78", lon |-> "-87.76", elevation_ft |-> "617",
             is_active |-> "True"]

\* for st in STATIONS: upsert_location(st)
RECURSIVE UpsertLocations(_, _)
UpsertLocations(rows, stations) ==
    IF stations = {} THEN rows
    ELSE LET s == CHOOSE x \in stations : TRUE
         IN  UpsertLocations(
                 UpsertLocationRow(rows, LocationParams(StationConfig(s))),
                 stations \ {s})

\* The text parameter of a date column, as the date it denotes.
ToDate(text) ==
    CASE text = "2026-01-30" -> 20260130
      [] text = "2026-01-31" -> 20260131
      [] text = "2026-03-07" -> 20260307
      [] text = "2026-03-08" -> 20260308
      [] text = "2026-03-09" -> 20260309

\* daily_batch of main: one dict per normalized row, with both lead times.
RECURSIVE DailyBatch(_, _, _, _, _)
DailyBatch(run_id, station_id, station_tz, issued_at, daily_rows) ==
    IF daily_rows = << >> THEN << >>
    ELSE LET r == Head(daily_rows)
         IN  << [run_id |-> run_id, station_id |-> station_id,
                 target_date |-> ToDate(r.target_date),
                 high_f |-> r.high_f, low_f |-> r.low_f,
                 lead_high_hours |->
                     ComputeLeadHours(station_tz, issued_at, r.target_date,
                                      "high"),
                 lead_low_hours |->
                     ComputeLeadHours(station_tz, issued_at, r.target_date,
                                      "low")] >>
             \o DailyBatch(run_id, station_id, station_tz, issued_at,
                           Tail(daily_rows))

\* hourly_batch of main: the dicts carry the seven series and no "extras" key.
RECURSIVE HourlyBatch(_, _, _)
HourlyBatch(run_id, station_id, hourly_rows) ==
    IF hourly_rows = << >> THEN << >>
    ELSE << [run_id |-> run_id, station_id |-> station_id,
             valid_time |-> Head(hourly_rows).valid_time,
             temperature_f |-> Head(hourly_rows).temperature_f,
             extras |-> ABSENT] >>
         \o HourlyBatch(run_id, station_id, Tail(hourly_rows))

\* insert into public.forecast_extras_hourly ... on conflict (run_id,
\* station_id, valid_time) do update set every column
UpsertHourlyRow(rows, new) ==
    {r \in rows : ~(/\ r.run_id = new.run_id
                    /\ r.station_id = new.station_id
                    /\ r.valid_time = new.valid_time)} \cup {new}

\* bulk_upsert_forecast_extras_hourly: cur.executemany binds %(extras)s from
\* each dict, and a dict without that key raises (KeyError in psycopg2,
\* ProgrammingError in psycopg) before the statement is sent.
RECURSIVE BulkUpsertForecastExtrasHourly(_, _)
BulkUpsertForecastExtrasHourly(rows, batch) ==
    IF batch = << >> THEN [raised |-> FALSE, rows |-> rows]
    ELSE IF Head(batch).extras = ABSENT THEN [raised |-> TRUE, rows |-> rows]
    ELSE BulkUpsertForecastExtrasHourly(UpsertHourlyRow(rows, Head(batch)),
                                        Tail(batch))

\* main up to the write loop: init_db, upsert_location for every station,
\* load_fetchers_safe, one _fetch_one submitted per station and source.  The
\* pool has 12 workers, more than the tasks of any run here, so every task
\* starts at once.
MainStart(stations, sources) ==
    /\ main.pc = "none"
    /\ tasks = << >>
    /\ locations' = UpsertLocations(locations, stations)
    /\ tasks' = [t \in stations \X sources |-> Submitted]
    /\ main' = [pc |-> "loop", handled |-> {}, failed |-> {}, warned |-> {},
                wrote |-> {}]
    /\ UNCHANGED << clock, schema, dbRunVars, dbObsVars, dbFcVars,
                    forecast_errors, error_stats, forecast_extras_hourly,
                    forecast_revisions, pc, loc, ret, calls, poolVars >>

\* The run is inserted on the shared connection and becomes durable with the
\* first conn.commit() after it: the one that follows the daily batch, or the
\* one that follows the hourly batch when that write does not raise.
DurableAtEnd(daily_batch, hourly) == ~hourly.raised

RunDurable(daily_batch, hourly) == daily_batch # << >> \/ ~hourly.raised

\* if not daily_rows and not hourly_rows
RowsAssumed(res) == FALSE

NoRows(res) == res.daily_rows = << >> /\ res.hourly_rows = << >>

\* One iteration of "for fut in as_completed(tasks)" for the completed task
\* t: a failed task and a task without rows are skipped; otherwise the run is
\* created on the shared connection, the daily batch is written and
\* committed, and the hourly batch is written and committed.  Nothing in the
\* loop catches an exception: it leaves main through "with get_conn()", which
\* rolls the connection back, and through the executor, which waits for the
\* tasks still running.  The run_id sequence keeps a value it handed out.
MainHandle(t) ==
    /\ main.pc = "loop"
    /\ t \in DOMAIN tasks
    /\ tasks[t].state = "done"
    /\ t \notin main.handled
    /\ LET station_id == t[1]
           source_id == t[2]
           res == tasks[t].result
           failed == res.err # NoErr
           empty == NoRows(res)
           issued_at == ToTimestamptz(res.issued_at)
           run_id == RunIdFor(source_id, issued_at)
           run_row == [run_id |-> run_id, source |-> source_id,
                       issued_at |-> issued_at]
           daily_batch ==
               DailyBatch(run_id, station_id,
                          StationConfig(station_id).timezone, res.issued_at,
                          res.daily_rows)
           hourly == BulkUpsertForecastExtrasHourly(
                         forecast_extras_hourly,
                         HourlyBatch(run_id, station_id, res.hourly_rows))
           handled == main.handled \cup {t}
       IN  IF failed \/ empty
           THEN /\ main' = [main EXCEPT
                               !.handled = handled,
                               !.failed = IF failed THEN @ \cup {t} ELSE @,
                               !.warned = IF failed THEN @ ELSE @ \cup {t},
                               !.pc = IF handled = DOMAIN tasks
                                      THEN "done" ELSE "loop"]
                /\ UNCHANGED << run_seq, forecast_runs, forecasts_daily,
                                forecast_extras_hourly, poolVars >>
           ELSE /\ run_seq' = IF run_id > run_seq THEN run_id ELSE run_seq
                /\ forecast_runs' =
                       IF RunDurable(daily_batch, hourly)
                       THEN forecast_runs \cup {run_row} ELSE forecast_runs
                /\ forecasts_daily' =
                       BulkUpsertForecastsDaily(forecasts_daily, daily_batch)
                /\ forecast_extras_hourly' =
                       IF hourly.raised THEN forecast_extras_hourly
                       ELSE hourly.rows
                /\ main' = [main EXCEPT
                               !.handled = handled,
                               !.wrote = IF daily_batch # << >>
                                         THEN @ \cup {t} ELSE @,
                               !.pc = IF hourly.raised THEN "raised"
                                      ELSE IF handled = DOMAIN tasks
                                      THEN "done" ELSE "loop"]
    /\ UNCHANGED << clock, schema, fr_pending, dbObsVars, forecasts,
                    forecast_errors, error_stats, locations,
                    forecast_revisions, tasks, pc, loc, ret, calls, poolVars >>

\* A payload with one daily row and no hourly data, and one without any row.
DailyOnlyPayload == [GoodPayload EXCEPT !.hourly = NoHourly]

EmptyPayload ==
    [GoodPayload EXCEPT !.hourly = NoHourly,
                        !.daily = [ty |-> "list", rows |-> << >>]]

MaxRetries == 1

\* Invocations so far that ended in a retry.
RECURSIVE RetriesOf(_, _)
RetriesOf(fs, ts) ==
    IF ts = {} THEN 0
    ELSE LET t == CHOOSE x \in ts : TRUE
         IN  (IF fs[t].state = "running" THEN fs[t].attempt
              ELSE fs[t].attempt - 1) + RetriesOf(fs, ts \ {t})

\* What the fetcher of a source can do on one invocation: the NWS collector
\* returns daily rows only, the Open-Meteo collector daily and hourly rows;
\* either can return a malformed payload or fail.
MainOutcomes(source_id) ==
    IF source_id = "NWS"
    THEN { Returns(DailyOnlyPayload), Returns(NotAnObject),
           Returns(DailyNotAList), Raises("HTTPError", 404, {}),
           Raises("Timeout", NULL, {"timed out"}) }
    ELSE { Returns(GoodPayload), Returns(EmptyPayload), Returns(NoIssuedAt),
           Raises("RuntimeError", NULL, {}),
           Raises("HTTPError", 503, {"service unavailable"}) }

MainStations == {"KNYC", "KMDW"}
MainSources  == {"NWS", "OME_BASE"}

InitMain == InitDb(TRUE, TRUE, TRUE)

NextMain ==
    \/ MainStart(MainStations, MainSources)
    \/ \E t \in DOMAIN tasks : \E o \in MainOutcomes(t[2]) :
          /\ (o.kind = "raise" /\ IsRetryableError(o.e))
                => RetriesOf(tasks, DOMAIN tasks) < MaxRetries
          /\ FetcherCall(t, o)
    \/ \E t \in DOMAIN tasks : MainHandle(t)

SpecMain == InitMain /\ [][NextMain]_vars

\* ---------------------------------------------------------------- run claims
\* Rows of task t in forecasts_daily: rows of its station under a run of its
\* source.
DailyRowsOfTask(t) ==
    {x \in forecasts_daily :
        /\ x.station_id = t[1]
        /\ \E r \in forecast_runs : r.run_id = x.run_id /\ r.source = t[2]}

\* C21: when the run is over, every task has been fetched, and every task
\* whose own fetch and normalization gave daily rows has them written,
\* whatever happened to the other tasks.
FailuresContained ==
    (main.pc \in {"done", "raised"}
     /\ \A t \in DOMAIN tasks : tasks[t].state = "done")
    => \A t \in DOMAIN tasks :
          (tasks[t].result.err.cls = "None"
           /\ tasks[t].result.daily_rows # << >>)
          => DailyRowsOfTask(t) # {}

\* What the claim calls a payload that fails as a whole.
FailsWhole(raw) ==
    \/ raw.ty # "dict"
    \/ raw.issued_at[1] # "str"
    \/ raw.issued_at[2] \in {"", "  "}
    \/ raw.daily.ty # "list"

\* C25: a returned payload that is not an object, or lacks a non-empty
\* issued_at string or a daily list, ends its task at once with a ValueError
\* and no rows, the fetcher is never invoked for it again, and the write loop,
\* when it comes to that task, counts it as failed, changes no table, and goes
\* on while tasks remain.
SchemaFailureContained ==
    /\ [][\A t \in DOMAIN tasks :
             (t \in DOMAIN tasks' /\ tasks'[t].attempt # tasks[t].attempt) =>
                LET o == tasks'[t].outcomes[Len(tasks'[t].outcomes)]
                IN  (o.kind = "return" /\ FailsWhole(o.raw)) =>
                       /\ tasks'[t].state = "done"
                       /\ tasks'[t].result =
                             [issued_at |-> "", daily_rows |-> << >>,
                              hourly_rows |-> << >>, err |-> ValueError]
                       /\ \A u \in DOMAIN tasks \ {t} : tasks'[u] = tasks[u]
       ]_vars
    /\ [][\A t \in DOMAIN tasks :
             tasks[t].state = "done" => tasks'[t] = tasks[t]]_vars
    /\ [][\A t \in DOMAIN tasks :
             (main.pc = "loop" /\ t \in main'.handled \ main.handled
              /\ tasks[t].result.err = ValueError) =>
                /\ main'.failed = main.failed \cup {t}
                /\ main'.wrote = main.wrote
                /\ forecast_runs' = forecast_runs
                /\ run_seq' = run_seq
                /\ forecasts_daily' = forecasts_daily
                /\ forecast_extras_hourly' = forecast_extras_hourly
                /\ main'.pc = IF main'.handled = DOMAIN tasks
                              THEN "done" ELSE "loop"
       ]_vars

\* The run has ended; a task whose payload was not an object was counted as
\* failed and left no row, and the task of the other station was written.
SchemaFailureSkipped ==
    /\ main.pc = "done"
    /\ <<"KMDW", "NWS">> \in main.failed
    /\ tasks[<<"KMDW", "NWS">>].outcomes = << Returns(NotAnObject) >>
    /\ <<"KNYC", "NWS">> \in main.wrote
    /\ DailyRowsOfTask(<<"KMDW", "NWS">>) = {}
    /\ DailyRowsOfTask(<<"KNYC", "NWS">>) # {}
    /\ Cardinality(forecast_runs) = 1

\* ------------------------------------------------------- lead times of a run
\* Payloads issued on 2026-03-08, the day daylight time begins, at 05:00Z and
\* at 22:00Z, with a daily row for the day before, that day and the day after.
LeadPayload(issued_at) ==
    [ty |-> "dict", issued_at |-> <<"str", issued_at>>,
     daily |-> [ty |-> "list",
                rows |-> [i \in 1..3 |->
                    [ty |-> "dict",
                     target_date |->
                         <<"str", << "2026-03-07", "2026-03-08",
                                     "2026-03-09" >>[i]>>,
                     high_f |-> <<"float", "29.4">>,
                     low_f |-> <<"int", "18">>]]],
     hourly |-> NoHourly]

LeadOutcomes ==
    { Returns(LeadPayload("2026-03-08T05:00:00Z")),
      Returns(LeadPayload("2026-03-08T22:00:00Z")) }

InitLead == InitDb(TRUE, TRUE, TRUE)

NextLead ==
    \/ MainStart(MainStations, MainSources)
    \/ \E t \in DOMAIN tasks, o \in LeadOutcomes : FetcherCall(t, o)
    \/ \E t \in DOMAIN tasks : MainHandle(t)

SpecLead == InitLead /\ [][NextLead]_vars

\* Hours from the two issuances (run instants 3 and 4) to 15:00 and 06:00
\* local time of each target date, for New York (UTC-5, UTC-4 from
\* 2026-03-08 02:00) and Chicago (UTC-6, UTC-5): <<high, low>>.
ExpectedLeadHours ==
    [s \in {"KNYC", "KMDW"}, i \in {3, 4},
     d \in {20260307, 20260308, 20260309} |->
        CASE s = "KNYC" /\ i = 3 /\ d = 20260307 -> << -9, -18 >>
          [] s = "KNYC" /\ i = 3 /\ d = 20260308 -> << 14, 5 >>
          [] s = "KNYC" /\ i = 3 /\ d = 20260309 -> << 38, 29 >>
          [] s = "KNYC" /\ i = 4 /\ d = 20260307 -> << -26, -35 >>
          [] s = "KNYC" /\ i = 4 /\ d = 20260308 -> << -3, -12 >>
          [] s = "KNYC" /\ i = 4 /\ d = 20260309 -> << 21, 12 >>
          [] s = "KMDW" /\ i = 3 /\ d = 20260307 -> << -8, -17 >>
          [] s = "KMDW" /\ i = 3 /\ d = 20260308 -> << 15, 6 >>
          [] s = "KMDW" /\ i = 3 /\ d = 20260309 -> << 39, 30 >>
          [] s = "KMDW" /\ i = 4 /\ d = 20260307 -> << -25, -34 >>
          [] s = "KMDW" /\ i = 4 /\ d = 20260308 -> << -2, -11 >>
          [] s = "KMDW" /\ i = 4 /\ d = 20260309 -> << 22, 13 >>]

\* C30: every daily row carries, for high and for low, the signed hours from
\* the issuance of its run to 15:00 and 06:00 local time of its target date
\* in its station's zone, negative ones included; the anchors of the day
\* before and the day after the spring-forward transition are 47 hours
\* apart; and rows of different sources for one station, issuance and date
\* carry the same lead times.
LeadHoursLocalAnchor ==
    /\ \A x \in forecasts_daily : \E r \in forecast_runs :
          /\ r.run_id = x.run_id
          /\ << x.lead_high_hours, x.lead_low_hours >> =
                ExpectedLeadHours[x.station_id, r.issued_at, x.target_date]
    /\ \A x, y \in forecasts_daily :
          ( /\ x.run_id = y.run_id /\ x.station_id = y.station_id
            /\ x.target_date = 20260307 /\ y.target_date = 20260309 )
          => /\ y.lead_high_hours - x.lead_high_hours = 47
             /\ y.lead_low_hours - x.lead_low_hours = 47
    /\ \A x, y \in forecasts_daily :
          ( /\ x.station_id = y.station_id /\ x.target_date = y.target_date
            /\ \E r1, r2 \in forecast_runs :
                  /\ r1.run_id = x.run_id /\ r2.run_id = y.run_id
                  /\ r1.issued_at = r2.issued_at )
          => /\ x.lead_high_hours = y.lead_high_hours
             /\ x.lead_low_hours = y.lead_low_hours

\* Both sources have written both stations; a row of the transition day is
\* stored with a negative lead time and one with a positive lead time.
LeadHoursWritten ==
    /\ main.pc = "done"
    /\ main.wrote = DOMAIN tasks
    /\ \E x \in forecasts_daily :
          /\ x.station_id = "KNYC" /\ x.target_date = 20260308
          /\ x.lead_high_hours = -3
    /\ \E x \in forecasts_daily :
          /\ x.station_id = "KNYC" /\ x.target_date = 20260308
          /\ x.lead_high_hours = 14
    /\ Cardinality({r.source : r \in forecast_runs}) = 2

\* ------------------------------------------------------------------ revisions
\* fetchone() on an empty result: prev is None.
NoPrev == [issued_at |-> NULL, prev_value |-> NULL]

\* and r2.issued_at < %s::timestamptz
NotLater(a, b) == a <= b

Earlier(a, b) == a < b

\* select r2.issued_at, case when %s='high' then d2.high_f else d2.low_f end
\* from forecasts_daily d2 join forecast_runs r2 where station, source, date
PrevDaily(kind, station_id, source, target_date, issued_at) ==
    {[issued_at |-> x[2].issued_at,
      prev_value |-> IF kind = "high" THEN x[1].high_f ELSE x[1].low_f]
        : x \in {y \in forecasts_daily \X forecast_runs :
                    /\ y[2].run_id = y[1].run_id
                    /\ y[1].station_id = station_id
                    /\ y[2].source = source
                    /\ y[1].target_date = target_date
                    /\ Earlier(y[2].issued_at, issued_at)}}

\* select r2.issued_at, f2.value_f from forecasts f2 join forecast_runs r2
\* where station, source, kind, date
PrevLegacy(kind, station_id, source, target_date, issued_at) ==
    {[issued_at |-> x[2].issued_at, prev_value |-> x[1].value_f]
        : x \in {y \in forecasts \X forecast_runs :
                    /\ y[2].run_id = y[1].run_id
                    /\ y[1].station_id = station_id
                    /\ y[2].source = source
                    /\ y[1].kind = kind
                    /\ y[1].target_date = target_date
                    /\ Earlier(y[2].issued_at, issued_at)}}

\* order by r2.issued_at desc limit 1; prev = cur.fetchone()
LatestPrev(found) ==
    IF found = {} THEN NoPrev
    ELSE CHOOSE c \in found : \A o \in found : o.issued_at <= c.issued_at

\* The parameters of the insert: prev_issued_at, prev_forecast_f and delta_f
\* from the row found, None without one.
RevisionRow(source, issued_at, station_id, target_date, kind, forecast_f, prev) ==
    LET prev_forecast_f == IF prev # NoPrev /\ prev.prev_value # NULL
                           THEN prev.prev_value ELSE NULL
    IN  [station_id |-> station_id, source |-> source, kind |-> kind,
         target_date |-> target_date, issued_at |-> issued_at,
         forecast_f |-> forecast_f,
         prev_issued_at |-> IF prev # NoPrev THEN prev.issued_at ELSE NULL,
         prev_forecast_f |-> prev_forecast_f,
         delta_f |-> IF prev_forecast_f # NULL
                     THEN forecast_f - prev_forecast_f ELSE NULL]

\* The rows of the run joined with forecast_runs, one insert per non-null
\* kind of a forecasts_daily row.
DailyRevisions(run_id) ==
    UNION {
        LET d == x[1]
            r == x[2]
        IN  (IF d.high_f # NULL
             THEN {RevisionRow(r.source, r.issued_at, d.station_id,
                               d.target_date, "high", d.high_f,
                               LatestPrev(PrevDaily("high", d.station_id,
                                   r.source, d.target_date, r.issued_at)))}
             ELSE {})
            \cup
            (IF d.low_f # NULL
             THEN {RevisionRow(r.source, r.issued_at, d.station_id,
                               d.target_date, "low", d.low_f,
                               LatestPrev(PrevDaily("low", d.station_id,
                                   r.source, d.target_date, r.issued_at)))}
             ELSE {})
        : x \in {y \in forecasts_daily \X forecast_runs :
                    y[1].run_id = run_id /\ y[2].run_id = run_id} }

\* legacy path: one insert per forecasts row with a value
LegacyRevisions(run_id) ==
    {RevisionRow(x[2].source, x[2].issued_at, x[1].station_id,
                 x[1].target_date, x[1].kind, x[1].value_f,
                 LatestPrev(PrevLegacy(x[1].kind, x[1].station_id, x[2].source,
                                       x[1].target_date, x[2].issued_at)))
        : x \in {y \in forecasts \X forecast_runs :
                    /\ y[1].run_id = run_id /\ y[2].run_id = run_id
                    /\ y[1].value_f # NULL}}

RevisionsAt(revs, r) ==
    {x \in revs : /\ x.station_id = r.station_id /\ x.source = r.source
                  /\ x.kind = r.kind /\ x.target_date = r.target_date
                  /\ x.issued_at = r.issued_at}

\* insert into public.forecast_revisions ... on conflict (station_id, source,
\* kind, target_date, issued_at) do nothing
InsertRevision(revs, r) ==
    IF RevisionsAt(revs, r) # {} THEN revs ELSE revs \cup {r}

\* The loop over the rows of the run: one insert each, wrote += 1.
RECURSIVE InsertRevisions(_, _)
InsertRevisions(acc, todo) ==
    IF todo = {} THEN acc
    ELSE LET r == CHOOSE x \in todo : TRUE
         IN  InsertRevisions([revs |-> InsertRevision(acc.revs, r),
                              wrote |-> acc.wrote + 1],
                             todo \ {r})

\* compute_revisions_for_run(run_id): has_daily probe, the rows of the run,
\* one previous-issuance query and one insert per value, commit.  A run
\* without rows returns 0 before any insert.
ComputeRevisionsForRun(run_id) ==
    /\ pc[1] = "idle"
    /\ LET todo == IF schema.has_daily THEN DailyRevisions(run_id)
                   ELSE LegacyRevisions(run_id)
           res == InsertRevisions([revs |-> forecast_revisions, wrote |-> 0],
                                  todo)
       IN  /\ forecast_revisions' = res.revs
           /\ ret' = [ret EXCEPT ![1] =
                         [op |-> "compute_revisions_for_run",
                          run_id |-> run_id, wrote |-> res.wrote]]
    /\ UNCHANGED << locations, forecast_extras_hourly, tasks, main, clock,
                    schema, dbRunVars, dbObsVars, dbFcVars, forecast_errors,
                    error_stats, pc, loc, calls, poolVars >>

\* Three issuances of NWS and one of OME_BASE; the middle NWS issuance may
\* lack a row for the station-day or hold one without a low.
RevRuns ==
    {[run_id |-> 1, source |-> "NWS", issued_at |-> 0],
     [run_id |-> 2, source |-> "NWS", issued_at |-> 1],
     [run_id |-> 3, source |-> "OME_BASE", issued_at |-> 1],
     [run_id |-> 4, source |-> "NWS", issued_at |-> 2]}

RevRunIds == {1, 2, 3, 4, 5}

DailyRowOf(run_id, station_id, target_date, pl) ==
    [run_id |-> run_id, station_id |-> station_id, target_date |-> target_date,
     high_f |-> pl[1], low_f |-> pl[2],
     lead_high_hours |-> pl[3], lead_low_hours |-> pl[4]]

\* The two rows of the legacy format that hold what a daily row holds.
LegacyRowsOf(d) ==
    {[run_id |-> d.run_id, station_id |-> d.station_id,
      target_date |-> d.target_date, kind |-> "high", value_f |-> d.high_f,
      lead_hours |-> d.lead_high_hours],
     [run_id |-> d.run_id, station_id |-> d.station_id,
      target_date |-> d.target_date, kind |-> "low", value_f |-> d.low_f,
      lead_hours |-> d.lead_low_hours]}

RevFirstRows  == {{}, {DailyRowOf(1, "KMDW", 20260131, <<290, 170, 45, 36>>)}}
RevMiddleRows == {{}, {DailyRowOf(2, "KMDW", 20260131, <<300, NULL, 33, NULL>>)},
                  {DailyRowOf(2, "KMDW", 20260131, <<300, 180, 33, 24>>)}}
RevFixedRows  ==
    {DailyRowOf(3, "KMDW", 20260131, <<305, 185, 33, 24>>),
     DailyRowOf(4, "KMDW", 20260131, <<310, 175, 21, 12>>),
     DailyRowOf(4, "KNYC", 20260130, <<300, 180, 21, 12>>)}

InitRev ==
    \E has_daily \in BOOLEAN, first \in RevFirstRows, middle \in RevMiddleRows :
        LET rows == first \cup middle \cup RevFixedRows
        IN  /\ clock = 0
            /\ schema = [has_new |-> FALSE, has_latest |-> FALSE,
                         has_daily |-> has_daily]
            /\ run_seq = 4
            /\ forecast_runs = RevRuns
            /\ fr_pending = [p \in Procs |-> {}]
            /\ obs_seq = 0
            /\ observation_runs = {}
            /\ observations_v2 = {}
            /\ observations = {}
            /\ obs_run_issued_at = [p \in Procs |-> NULL]
            /\ forecasts_daily = IF has_daily THEN rows ELSE {}
            /\ forecasts = IF has_daily THEN {}
                           ELSE UNION {LegacyRowsOf(d) : d \in rows}
            /\ forecast_errors = EmptyBag
            /\ error_stats = {}
            /\ InitExt
            /\ NoMorningRun
            /\ pc = [p \in Procs |-> "idle"]
            /\ loc = [p \in Procs |-> NoCall]
            /\ ret = [p \in Procs |-> NoCall]
            /\ calls = [run |-> 0, obs |-> 0, fc |-> 0, build |-> 0, stats |-> 0]

\* A later fetch of an issuance revises its values; revisions are computed for
\* any run, known or not, in any order.
NextRev ==
    \/ \E run_id \in RevRunIds : ComputeRevisionsForRun(run_id)
    \/ \E t \in IssuedAts : StoreDaily("NWS", t, "KMDW", 20260131, <<320, 190, 21, 12>>)
    \/ \E t \in IssuedAts, k \in Kinds :
          StoreLegacy("NWS", t, "KMDW", 20260131, k, 320, 21)

SpecRev == InitRev /\ [][NextRev]_vars

\* ------------------------------------------------------------ revision claims
RevStep == ret'[1].op = "compute_revisions_for_run"

\* The forecast values the tables hold for a run: one per station, target
\* date and kind, null included.
IssuanceValues(run_id) ==
    IF schema.has_daily
    THEN UNION {{[station_id |-> d.station_id, target_date |-> d.target_date,
                  kind |-> "high", value_f |-> d.high_f],
                 [station_id |-> d.station_id, target_date |-> d.target_date,
                  kind |-> "low", value_f |-> d.low_f]}
                   : d \in {x \in forecasts_daily : x.run_id = run_id}}
    ELSE {[station_id |-> f.station_id, target_date |-> f.target_date,
           kind |-> f.kind, value_f |-> f.value_f]
             : f \in {x \in forecasts : x.run_id = run_id}}

SameTarget(v, w) ==
    /\ v.station_id = w.station_id /\ v.target_date = w.target_date
    /\ v.kind = w.kind

\* The issuances of the source of run that precede it and hold a forecast for
\* the target of v.
EarlierIssuances(run, v) ==
    {r \in forecast_runs :
        /\ r.source = run.source
        /\ r.issued_at < run.issued_at
        /\ \E w \in IssuanceValues(r.run_id) : SameTarget(v, w)}

RevisionOf(revs, run, v) ==
    {x \in revs : /\ x.station_id = v.station_id /\ x.source = run.source
                  /\ x.kind = v.kind /\ x.target_date = v.target_date
                  /\ x.issued_at = run.issued_at}

\* The revision of value v of run is measured against the latest earlier
\* issuance: its time, its value for the target, and the difference.
AgainstPreceding(x, run, v) ==
    LET earlier == EarlierIssuances(run, v)
    IN  /\ x.forecast_f = v.value_f
        /\ IF earlier = {}
           THEN /\ x.prev_issued_at = NULL
                /\ x.prev_forecast_f = NULL
                /\ x.delta_f = NULL
           ELSE \E p \in earlier :
                   /\ \A q \in earlier : q.issued_at <= p.issued_at
                   /\ x.prev_issued_at = p.issued_at
                   /\ \E w \in IssuanceValues(p.run_id) :
                         /\ SameTarget(v, w)
                         /\ x.prev_forecast_f = w.value_f
                         /\ x.delta_f = IF w.value_f = NULL THEN NULL
                                        ELSE v.value_f - w.value_f

\* C29: compute_revisions_for_run(run) leaves exactly one revision for every
\* non-null forecast value of the run; a revision it adds holds the value, the
\* time and value of the latest strictly earlier issuance of the same source
\* for the same station, target date and kind, and their difference (all three
\* null without an earlier issuance); it adds no other row and leaves every
\* revision that existed as it was.
RevisionsRecorded ==
    [][RevStep =>
          LET run_id == ret'[1].run_id
              runs == {r \in forecast_runs : r.run_id = run_id}
              values == {v \in IssuanceValues(run_id) : v.value_f # NULL}
          IN  /\ \A old \in forecast_revisions : old \in forecast_revisions'
              /\ \A x \in forecast_revisions' :
                    RevisionsAt(forecast_revisions', x) = {x}
              /\ \A run \in runs, v \in values :
                    /\ RevisionOf(forecast_revisions', run, v) # {}
                    /\ \A x \in RevisionOf(forecast_revisions', run, v) :
                          x \notin forecast_revisions => AgainstPreceding(x, run, v)
              /\ \A x \in forecast_revisions' \ forecast_revisions :
                    \E run \in runs, v \in values :
                       x \in RevisionOf(forecast_revisions', run, v)]_vars

\* Revisions were computed with three NWS issuances for one station-day in
\* the tables: the latest issuance is measured against the middle one, the
\* first issuance has no previous value, and a revision computed before its
\* issuance was fetched again still holds the value it was computed from.
RevisionWitness ==
    /\ ret[1].op = "compute_revisions_for_run"
    /\ \E x, y, z \in forecast_revisions :
          /\ x.source = "NWS" /\ x.issued_at = 2 /\ x.prev_issued_at = 1
          /\ x.delta_f # NULL /\ x.delta_f # 0
          /\ y.source = "NWS" /\ y.issued_at = 0 /\ y.prev_issued_at = NULL
          /\ y.delta_f = NULL
          /\ SameTarget(x, y)
          /\ z.forecast_f # 320
          /\ \E v \in IssuanceValues(2) :
                SameTarget(v, z) /\ z.issued_at = 1 /\ z.source = "NWS"
                                 /\ v.value_f = 320

\* ------------------------------------------------- a pass that fails part-way
\* Both passes work on one connection and call conn.commit() once, after the
\* last statement.  An exception before that leaves the function with the
\* transaction open; the server discards it with the connection.
PendingKept(committed, pending) == pending

Uncommitted(committed, pending) == committed

\* The inserts build_errors_for_date(target_date) executes, in some order.
BuildTodo(target_date) ==
    UNION {IF schema.has_daily
           THEN DailyCandidates(target_date, o)
           ELSE LegacyCandidates(target_date, o)
              : o \in ObsRowsForDate(target_date)}

\* The upserts update_error_stats executes: the per-kind rows first, then the
\* 'both' rows.
StatsTodo(window_days, station_id) ==
    LET rows == SelectErrors(window_days, station_id)
        by_keys == GroupKeys(rows)
    IN  [kinds |-> {StatsRow(k, GroupOf(rows, k), window_days, clock)
                       : k \in by_keys},
         boths |-> BothRows(by_keys, rows, window_days, clock)]

MaxFailures == 1

\* build_errors_for_date(target_date) raising after the inserts of done, a
\* proper part of its statements, have executed (a lost connection, a
\* statement error).  before is the table the call found.
BuildErrorsFails(target_date, done) ==
    /\ pc[1] = "idle"
    /\ calls.failed < MaxFailures
    /\ done # {} /\ done \subseteq BuildTodo(target_date)
    /\ done # BuildTodo(target_date)
    /\ LET pending == InsertErrors([errors |-> forecast_errors, wrote |-> 0],
                                   done).errors
       IN  /\ forecast_errors' = Uncommitted(forecast_errors, pending)
           /\ ret' = [ret EXCEPT ![1] =
                         [op |-> "build_errors_for_date",
                          target_date |-> target_date, wrote |-> NULL,
                          raised |-> TRUE,
                          inserted |-> BagCardinality(pending)
                                         - BagCardinality(forecast_errors),
                          again |-> /\ ret[1].op = "build_errors_for_date"
                                    /\ ret[1].target_date = target_date,
                          before |-> forecast_errors]]
    /\ calls' = [calls EXCEPT !.failed = @ + 1]
    /\ UNCHANGED << extVars, clock, schema, dbRunVars, dbObsVars, dbFcVars,
                    error_stats, pc, loc >>

\* update_error_stats raising after the upserts of done_kinds and done_boths
\* have executed.
UpdateErrorStatsFails(window_days, station_id, done_kinds, done_boths) ==
    /\ pc[1] = "idle"
    /\ calls.failed < MaxFailures
    /\ LET todo == StatsTodo(window_days, station_id)
           pending == UpsertAll(UpsertAll(error_stats, done_kinds), done_boths)
       IN  /\ done_kinds # {} /\ done_kinds \subseteq todo.kinds
           /\ done_boths \subseteq todo.boths
           /\ done_boths # {} => done_kinds = todo.kinds
           /\ << done_kinds, done_boths >> # << todo.kinds, todo.boths >>
           /\ error_stats' = Uncommitted(error_stats, pending)
           /\ ret' = [ret EXCEPT ![1] =
                         [op |-> "update_error_stats",
                          window_days |-> window_days,
                          station_id |-> station_id, now_day |-> NowDay,
                          again |-> /\ ret[1].op = "update_error_stats"
                                    /\ ret[1].window_days = window_days
                                    /\ ret[1].station_id = station_id
                                    /\ ret[1].now_day = NowDay,
                          raised |-> TRUE,
                          upserted |-> Cardinality(done_kinds)
                                         + Cardinality(done_boths),
                          before |-> error_stats]]
    /\ calls' = [calls EXCEPT !.failed = @ + 1]
    /\ UNCHANGED << extVars, clock, schema, dbRunVars, dbObsVars, dbFcVars,
                    forecast_errors, pc, loc >>

\* Forecasts of three runs and the observation of one station-day, scored in
\* part or not at all, next to older error rows.
RerunDaily ==
    {DailyRowOf(1, "KMDW", 20260131, <<300, 180, 21, 12>>),
     DailyRowOf(2, "KMDW", 20260131, <<NULL, 165, NULL, 12>>),
     DailyRowOf(3, "KMDW", 20260131, <<310, NULL, 20, NULL>>)}

RerunObservations ==
    InsertObservation({}, [station_id |-> "KMDW", date |-> 20260131,
                           observed_high |-> 294, observed_low |-> 171,
                           issued_at |-> NULL, now |-> 0, raw_text |-> NULL,
                           source |-> "NWS_CLI"])

RerunScored ==
    {ErrorRow(StatsRun(1), "KMDW", 20260131, "high", 21, 300, 294),
     ErrorRow(StatsRun(1), "KMDW", 20260130, "high", 45, 280, 300),
     ErrorRow(StatsRun(1), "KMDW", 20260130, "low", 36, 180, 171)}

RerunWindows == {1}
RerunFilters == {NONE}

InitRerun ==
    \E rows \in SUBSET RerunScored :
        /\ clock = 0
        /\ schema = [has_new |-> FALSE, has_latest |-> FALSE, has_daily |-> TRUE]
        /\ run_seq = 3
        /\ forecast_runs = StatsRuns
        /\ fr_pending = [p \in Procs |-> {}]
        /\ obs_seq = 0
        /\ observation_runs = {}
        /\ observations_v2 = {}
        /\ observations = RerunObservations
        /\ obs_run_issued_at = [p \in Procs |-> NULL]
        /\ forecasts_daily = RerunDaily
        /\ forecasts = {}
        /\ forecast_errors = SetToBag(rows)
        /\ error_stats = {}
        /\ InitExt
        /\ NoMorningRun
        /\ pc = [p \in Procs |-> "idle"]
        /\ loc = [p \in Procs |-> NoCall]
        /\ ret = [p \in Procs |-> NoCall]
        /\ calls = [run |-> 0, obs |-> 0, fc |-> 0, build |-> 0, stats |-> 0,
                    failed |-> 0]

NextRerun ==
    \/ \E d \in ObsDates :
          \E done \in SUBSET BuildTodo(d) : BuildErrorsFails(d, done)
    \/ \E d \in ObsDates : BuildErrorsForDate(d)
    \/ \E w \in RerunWindows, st \in RerunFilters :
          \E dk \in SUBSET StatsTodo(w, st).kinds,
             db \in SUBSET StatsTodo(w, st).boths :
                UpdateErrorStatsFails(w, st, dk, db)
    \/ \E w \in RerunWindows, st \in RerunFilters : UpdateErrorStats(w, st)
    \/ Midnight

SpecRerun == InitRerun /\ [][NextRerun]_vars

\* ------------------------------------------------------------- re-run claims
FailStep == calls'.failed # calls.failed

\* The call before this one raised part-way.
AfterFailure(op) == ret[1].op = op /\ "before" \in DOMAIN ret[1]

\* C27: a scoring or stats pass that fails part-way leaves forecast_errors and
\* error_stats as it found them, and the same pass run to completion right
\* after the failure leaves the tables a single completed pass leaves, started
\* from the tables the failed pass found: no row of the failed pass remains,
\* no error row is stored twice, no stats key holds two rows.
RerunAfterFailure ==
    /\ [][FailStep => /\ forecast_errors' = forecast_errors
                      /\ error_stats' = error_stats]_vars
    /\ [][(/\ BuildStep
           /\ AfterFailure("build_errors_for_date")
           /\ ret[1].target_date = ret'[1].target_date
           /\ ~ret'[1].raised)
          => /\ forecast_errors' =
                   InsertErrors([errors |-> ret[1].before, wrote |-> 0],
                                BuildTodo(ret[1].target_date)).errors
             /\ \A e \in BagToSet(forecast_errors') :
                   /\ CopiesIn(e, forecast_errors') = 1
                   /\ \A o \in BagToSet(forecast_errors') :
                         o.forecast_id = e.forecast_id => o = e]_vars
    /\ [][(/\ StatsStep
           /\ AfterFailure("update_error_stats")
           /\ ret[1].window_days = ret'[1].window_days
           /\ ret[1].station_id = ret'[1].station_id)
          => LET todo == StatsTodo(ret[1].window_days, ret[1].station_id)
             IN  /\ error_stats' =
                       UpsertAll(UpsertAll(ret[1].before, todo.kinds), todo.boths)
                 /\ \A x \in error_stats' : StatsAt(error_stats', x) = {x}]_vars

\* The scoring pass failed after at least one insert and was run again to
\* completion: it is the only completed pass, the call before it was the same
\* pass, and it stored rows next to a row scored earlier.
RerunWitness ==
    /\ ret[1].op = "build_errors_for_date"
    /\ ~ret[1].raised
    /\ ret[1].again
    /\ calls.build = 1 /\ calls.failed >= 1
    /\ ret[1].inserted > 0
    /\ ret[1].inserted < ret[1].wrote

\* ----------------------------------------------------------------- full reset
\* candidates of reset_db, without the public. prefix.
ResetCandidates ==
    {"dashboard_stats", "forecast_errors", "forecast_extras_hourly",
     "forecasts_daily", "forecast_runs", "observations", "observation_runs",
     "locations"}

\* The tables of the pipeline that reset_db does not name.
ResetUnlisted ==
    {"error_stats", "observations_v2", "forecasts", "forecast_revisions"}

\* select relname from pg_class ... where nspname = 'public' and relkind = 'r'
ExistingTables ==
    {"forecast_errors", "forecast_extras_hourly", "forecast_runs",
     "observations", "locations", "error_stats", "forecasts",
     "forecast_revisions"}
    \cup (IF schema.has_new THEN {"observation_runs", "observations_v2"} ELSE {})
    \cup (IF schema.has_daily THEN {"forecasts_daily"} ELSE {})

\* TRUNCATE TABLE ... CASCADE: the named tables, and the tables that refer to
\* one of them by a foreign key.  The table definitions are not part of the
\* program; schema.cascade is the set of unnamed tables with such a key.
TruncatedTables ==
    LET to_truncate == ResetCandidates \cap ExistingTables
    IN  IF to_truncate = {} THEN {} ELSE to_truncate \cup schema.cascade

Truncate(name, rows) == IF name \in TruncatedTables THEN {} ELSE rows

\* RESTART IDENTITY: the sequence of a truncated table starts over.
RestartIdentity(name, seq) == IF name \in TruncatedTables THEN 0 ELSE seq

\* reset_db(): the tables of the candidate list that exist are truncated in
\* one statement, which waits for open transactions on them; commit.
ResetDb ==
    /\ \A p \in Procs : pc[p] = "idle" /\ fr_pending[p] = {}
    /\ locations' = Truncate("locations", locations)
    /\ forecast_runs' = Truncate("forecast_runs", forecast_runs)
    /\ run_seq' = RestartIdentity("forecast_runs", run_seq)
    /\ forecasts_daily' = Truncate("forecasts_daily", forecasts_daily)
    /\ forecasts' = Truncate("forecasts", forecasts)
    /\ forecast_extras_hourly' =
           Truncate("forecast_extras_hourly", forecast_extras_hourly)
    /\ observation_runs' = Truncate("observation_runs", observation_runs)
    /\ obs_seq' = RestartIdentity("observation_runs", obs_seq)
    /\ observations_v2' = Truncate("observations_v2", observations_v2)
    /\ observations' = Truncate("observations", observations)
    /\ forecast_errors' = IF "forecast_errors" \in TruncatedTables
                          THEN EmptyBag ELSE forecast_errors
    /\ forecast_revisions' = Truncate("forecast_revisions", forecast_revisions)
    /\ error_stats' = Truncate("error_stats", error_stats)
    /\ ret' = [ret EXCEPT ![1] = [op |-> "reset_db",
                                  truncated |-> TruncatedTables]]
    /\ UNCHANGED << clock, schema, fr_pending, obs_run_issued_at, tasks, main,
                    pc, loc, calls, poolVars >>

\* A database the pipeline has filled: both observation schemas, both forecast
\* formats (the legacy rows from before forecasts_daily existed), hourly
\* extras, scored errors and a revision.
ResetSnapshot ==
    [station_id |-> "KMDW", date |-> 20260131, observed_high |-> 294,
     observed_low |-> 171, issued_at |-> NULL, now |-> 0, raw_text |-> NULL,
     source |-> "NWS_CLI"]

InitReset ==
    \E cascade \in SUBSET ResetUnlisted :
        /\ clock = 0
        /\ schema = [has_new |-> TRUE, has_latest |-> TRUE, has_daily |-> TRUE,
                     cascade |-> cascade]
        /\ run_seq = 3
        /\ forecast_runs = StatsRuns
        /\ fr_pending = [p \in Procs |-> {}]
        /\ obs_seq = 1
        /\ observation_runs = {[run_id |-> 1, run_issued_at |-> 1]}
        /\ observations_v2 = InsertSnapshot({}, 1, ResetSnapshot)
        /\ observations = RerunObservations
        /\ obs_run_issued_at = [p \in Procs |-> NULL]
        /\ forecasts_daily = RerunDaily
        /\ forecasts = LegacyRowsOf(DailyRowOf(1, "KNYC", 20260130,
                                               <<300, 180, 21, 12>>))
        /\ forecast_errors = SetToBag(RerunScored)
        /\ error_stats = {}
        /\ locations = UpsertLocations({}, MainStations)
        /\ forecast_extras_hourly =
               UpsertHourlyRow({}, [run_id |-> 1, station_id |-> "KMDW",
                                    valid_time |-> 3, temperature_f |-> 294,
                                    extras |-> "{}"])
        /\ forecast_revisions =
               {RevisionRow("NWS", 2, "KMDW", 20260131, "high", 310,
                            [issued_at |-> 1, prev_value |-> 300])}
        /\ NoMorningRun
        /\ pc = [p \in Procs |-> "idle"]
        /\ loc = [p \in Procs |-> NoCall]
        /\ ret = [p \in Procs |-> NoCall]
        /\ calls = [run |-> 0, obs |-> 0, fc |-> 0, build |-> 0, stats |-> 0]

\* The reset among the writers that touch the tables it does not name.
NextReset ==
    \/ ResetDb
    \/ \E s \in MainStations : UpsertLocation(StationConfig(s))
    \/ \E w \in StatsWindows : UpdateErrorStats(w, NONE)
    \/ \E run_id \in {1, 3} : ComputeRevisionsForRun(run_id)

SpecReset == InitReset /\ [][NextReset]_vars

\* ----------------------------------------------------------------- reset claim
\* Every row of old has a row with the same key in new.
KeysKept(old, new, Key(_)) == \A r \in old : \E n \in new : Key(n) = Key(r)

NoRowDeleted ==
    /\ KeysKept(locations, locations', LAMBDA r : r.station_id)
    /\ KeysKept(forecast_runs, forecast_runs', LAMBDA r : r.run_id)
    /\ KeysKept(forecasts_daily, forecasts_daily',
                LAMBDA r : << r.run_id, r.station_id, r.target_date >>)
    /\ KeysKept(forecasts, forecasts',
                LAMBDA r : << r.run_id, r.station_id, r.target_date, r.kind >>)
    /\ KeysKept(forecast_extras_hourly, forecast_extras_hourly',
                LAMBDA r : << r.run_id, r.station_id, r.valid_time >>)
    /\ KeysKept(observation_runs, observation_runs', LAMBDA r : r.run_id)
    /\ KeysKept(observations_v2, observations_v2',
                LAMBDA r : << r.run_id, r.station_id, r.date >>)
    /\ KeysKept(observations, observations',
                LAMBDA r : << r.station_id, r.date >>)
    /\ KeysKept(BagToSet(forecast_errors), BagToSet(forecast_errors'),
                LAMBDA r : r.forecast_id)
    /\ KeysKept(forecast_revisions, forecast_revisions',
                LAMBDA r : << r.station_id, r.source, r.kind, r.target_date,
                              r.issued_at >>)
    /\ KeysKept(error_stats, error_stats',
                LAMBDA r : << r.station_id, r.source, r.kind, r.window_days >>)

\* C28: after reset_db() every table the pipeline writes is empty (locations,
\* forecast runs and values of both formats, hourly extras, observation runs
\* and observations of both schemas, forecast errors, revisions, error_stats),
\* and a step of any other operation removes no row.
ResetEmptiesEverything ==
    /\ [](ret[1].op = "reset_db" =>
             /\ locations = {} /\ forecast_runs = {} /\ forecasts_daily = {}
             /\ forecasts = {} /\ forecast_extras_hourly = {}
             /\ observation_runs = {} /\ observations_v2 = {}
             /\ observations = {} /\ forecast_errors = EmptyBag
             /\ forecast_revisions = {} /\ error_stats = {})
    /\ [][ret'[1].op # "reset_db" => NoRowDeleted]_vars

\* --------------------------------------------------------- write phase claims
\* A step of the write loop that changed a forecast table.
WriteStep ==
    \/ forecast_runs' # forecast_runs
    \/ forecasts_daily' # forecasts_daily
    \/ forecast_extras_hourly' # forecast_extras_hourly

\* C33: no forecast run or forecast value is written while a fetch task of the
\* batch is still pending or running, and the write loop takes one task at a
\* time.
WritesAfterAllFetches ==
    /\ [][WriteStep => \A t \in DOMAIN tasks : tasks[t].state = "done"]_vars
    /\ [][main.pc = "loop" =>
             Cardinality(main'.handled \ main.handled) <= 1]_vars

\* The task the step of the write loop handled.
HandledNow(t) == main.pc = "loop" /\ t \in main'.handled \ main.handled

\* C34: a task that fetched without error and has neither daily nor hourly
\* rows is counted as a warning, not as a failure; the step creates no run,
\* draws no run_id and writes no row, and the loop goes on while tasks remain.
\* A step that creates a run or draws a run_id handles a task with at least
\* one daily or hourly row.
EmptyIsWarning ==
    /\ [][\A t \in DOMAIN tasks :
             (HandledNow(t) /\ tasks[t].result.err.cls = "None"
              /\ tasks[t].result.daily_rows = << >>
              /\ tasks[t].result.hourly_rows = << >>) =>
                /\ main'.warned = main.warned \cup {t}
                /\ main'.failed = main.failed
                /\ main'.wrote = main.wrote
                /\ forecast_runs' = forecast_runs
                /\ run_seq' = run_seq
                /\ forecasts_daily' = forecasts_daily
                /\ forecast_extras_hourly' = forecast_extras_hourly
                /\ main'.pc = IF main'.handled = DOMAIN tasks
                              THEN "done" ELSE "loop"
       ]_vars
    /\ [][(main.pc = "loop"
           /\ (forecast_runs' # forecast_runs \/ run_seq' # run_seq)) =>
             \E t \in DOMAIN tasks :
                /\ HandledNow(t)
                /\ \/ tasks[t].result.daily_rows # << >>
                   \/ tasks[t].result.hourly_rows # << >>
       ]_vars

\* The run has ended; a task whose payload had an empty daily list and no
\* hourly data was counted as a warning, no run exists for its source, and a
\* task handled after it was written.
EmptyWitness ==
    /\ main.pc = "done"
    /\ <<"KNYC", "OME_BASE">> \in main.warned
    /\ tasks[<<"KNYC", "OME_BASE">>].outcomes = << Returns(EmptyPayload) >>
    /\ main.failed \cap main.warned = {}
    /\ \A r \in forecast_runs : r.source # "OME_BASE"
    /\ main.wrote # {}
    /\ forecast_runs # {}

\* C32: every committed daily or hourly forecast row carries the run_id of a
\* forecast_runs row, and a step of the write loop that stores the first rows
\* of a run stores the run with them.
RunBeforeValues ==
    /\ [](\A x \in forecasts_daily \cup forecast_extras_hourly :
             \E r \in forecast_runs : r.run_id = x.run_id)
    /\ [][\A x \in (forecasts_daily' \cup forecast_extras_hourly')
                      \ (forecasts_daily \cup forecast_extras_hourly) :
             \E r \in forecast_runs' :
                /\ r.run_id = x.run_id
                /\ r.run_id <= run_seq'
                /\ \E t \in DOMAIN tasks :
                      /\ HandledNow(t)
                      /\ r.source = t[2]
                      /\ r.issued_at = ToTimestamptz(tasks[t].result.issued_at)
       ]_vars

\* The daily rows of a new run were committed together with the run, and the
\* hourly write of the same task failed after that commit.
RunBeforeValuesWitness ==
    /\ main.pc = "raised"
    /\ forecast_extras_hourly = {}
    /\ Cardinality(forecast_runs) = 1
    /\ \E x \in forecasts_daily : \E r \in forecast_runs :
          r.run_id = x.run_id /\ r.source = "OME_BASE"

\* ------------------------------------------------------- morning: retry sleep
\* is_429 = ("429" in msg) or ("too many requests" in msg) or ("rate limit"
\* in msg), msg = str(e).lower(); e.phrases holds the phrases found in msg.
Is429(e) == e.phrases \cap {"429", "too many requests", "rate limit"} # {}

\* sleep_s in milliseconds; rnd is random.random() in milliseconds:
\* 10.0 + random * 5.0 for is_429, else
\* min(5.0, BASE_SLEEP_SECONDS * attempt + random * 0.5).
SleepMillis(e, attempt, rnd) ==
    IF Is429(e) THEN 10000 + rnd * 5
    ELSE Min2(5000, 1000 * attempt + rnd \div 2)

\* Failures a fetcher raises, by what str(e) holds.  raise_for_status puts
\* the status code, the reason and the URL into the message; a
\* ConnectionError carries the URL and the repr of the connection object with
\* its address, so the digits 429 occur in messages of failures that are no
\* 429 response.
SleepErrors ==
    { [cls |-> "HTTPError", code |-> 429, phrases |-> {"429", "too many requests"}],
      [cls |-> "HTTPError", code |-> 503, phrases |-> {"service unavailable"}],
      [cls |-> "HTTPError", code |-> 503, phrases |-> {"service unavailable", "429"}],
      [cls |-> "HTTPError", code |-> 404, phrases |-> {}],
      [cls |-> "Timeout", code |-> NULL, phrases |-> {"timed out"}],
      [cls |-> "ConnectionError", code |-> NULL, phrases |-> {"connection reset"}],
      [cls |-> "ConnectionError", code |-> NULL, phrases |-> {"429"}],
      [cls |-> "RuntimeError", code |-> NULL, phrases |-> {"rate limit"}],
      [cls |-> "RuntimeError", code |-> NULL, phrases |-> {"try again"}] }

SleepRandoms == {0, 500, 999}

InitSleep ==
    \E e \in SleepErrors, attempt \in 1..MAX_ATTEMPTS, rnd \in SleepRandoms :
        InitDbArgs([op |-> "_call_fetcher_with_retry", e |-> e,
                    attempt |-> attempt, rnd |-> rnd])

\* The except clause of one iteration: re-raise on the last attempt or for an
\* error that is not retryable, else sleep.
ApplySleep ==
    /\ pc[1] = "called"
    /\ loc[1].op = "_call_fetcher_with_retry"
    /\ ret' = [ret EXCEPT ![1] =
                  [op |-> "_call_fetcher_with_retry", e |-> loc[1].e,
                   attempt |-> loc[1].attempt,
                   raised |-> \/ LastAttempt(loc[1].attempt)
                              \/ ~IsRetryableError(loc[1].e),
                   sleep_ms |-> IF \/ LastAttempt(loc[1].attempt)
                                   \/ ~IsRetryableError(loc[1].e)
                                THEN NULL
                                ELSE SleepMillis(loc[1].e, loc[1].attempt,
                                                 loc[1].rnd)]]
    /\ pc' = [pc EXCEPT ![1] = "idle"]
    /\ loc' = [loc EXCEPT ![1] = NoCall]
    /\ UNCHANGED << extVars, clock, schema, dbRunVars, dbObsVars, dbFcVars,
                    forecast_errors, error_stats, calls >>

NextSleep == ApplySleep

SpecSleep == InitSleep /\ [][NextSleep]_vars

\* ---------------------------------------------------------------- sleep claim
\* A failure that is a 429 response or reports a rate limit.
RateLimited(e) ==
    \/ e.cls = "HTTPError" /\ e.code = 429
    \/ e.phrases \cap {"too many requests", "rate limit"} # {}

\* C35: the sleep before the next attempt is at least 10 seconds after a
\* rate-limit failure and at most 5 seconds after any other retried failure.
RateLimitBackoff ==
    (ret[1].op = "_call_fetcher_with_retry" /\ ~ret[1].raised) =>
        IF RateLimited(ret[1].e) THEN ret[1].sleep_ms >= 10000
        ELSE ret[1].sleep_ms <= 5000

\* ------------------------------------------- morning: worker pool, semaphores
\* ThreadPoolExecutor(max_workers=12)
max_workers == 12

\* _provider_key: the first prefix that the source id starts with.
ProviderKey(source_id) ==
    CASE source_id = "TOM" -> "TOM"
      [] source_id = "WAPI" -> "WAPI"
      [] source_id = "VCR" -> "VCR"
      [] source_id \in {"NWS"} -> "NWS"
      [] source_id \in {"OME_BASE", "OME_GFS", "OME_EC", "OME_ICON",
                        "OME_GEM"} -> "OME"
      [] OTHER -> "OTHER"

\* sem = _PROVIDER_LIMITS.get(_provider_key(source_id)); "if sem:".
HasSem(key) == key \in DOMAIN PROVIDER_LIMITS

\* with sem: blocks while the semaphore has no permit.
NeverBlocks(key) == TRUE

CanEnter(key) == HasSem(key) => provider_limits[key] > 0

Acquired(sems, key) ==
    IF HasSem(key) THEN [sems EXCEPT ![key] = @ - 1] ELSE sems

\* Leaving the with block, by return or by exception.
HeldOn(sems, key) == sems

Released(sems, key) ==
    IF HasSem(key) THEN [sems EXCEPT ![key] = @ + 1] ELSE sems

\* A worker thread running _fetch_one for a source of provider key: about to
\* enter "with sem" (state "enter"), inside the fetcher ("fetching"), or in
\* time.sleep between two attempts ("sleeping").
Worker(key, state, attempt) ==
    [key |-> key, state |-> state, attempt |-> attempt]

Busy == BagCardinality(executor.workers)

WorkersAt(state) ==
    {w \in BagToSet(executor.workers) : w.state = state}

Swap(workers, old, new) ==
    (workers (-) SetToBag({old})) (+) SetToBag({new})

\* ex.submit for every station and every source, stations outermost: the work
\* queue holds the tasks <<station_id, source_id>> in that order.
RECURSIVE SubmitAll(_, _)
SubmitAll(stations, sources) ==
    IF stations = << >> THEN << >>
    ELSE [i \in 1..Len(sources) |-> << Head(stations), sources[i] >>]
            \o SubmitAll(Tail(stations), sources)

PoolSubmit(stations, sources) ==
    /\ executor = NoExecutor
    /\ executor' = [executor EXCEPT !.queue = SubmitAll(stations, sources)]
    /\ UNCHANGED << provider_limits, locations, forecast_extras_hourly,
                    forecast_revisions, tasks, main, clock, schema, dbRunVars,
                    dbObsVars, dbFcVars, forecast_errors, error_stats, pc,
                    loc, ret, calls >>

\* A thread of the pool takes the next work item: the queue is first in,
\* first out, and the pool never has more than max_workers threads.
WorkerTakes ==
    /\ executor.next < Len(executor.queue)
    /\ Busy < max_workers
    /\ executor' =
          [executor EXCEPT
             !.next = @ + 1,
             !.workers = @ (+) SetToBag({Worker(
                 ProviderKey(executor.queue[executor.next + 1][2]), "enter", 1)})]
    /\ UNCHANGED << provider_limits, locations, forecast_extras_hourly,
                    forecast_revisions, tasks, main, clock, schema, dbRunVars,
                    dbObsVars, dbFcVars, forecast_errors, error_stats, pc,
                    loc, ret, calls >>

\* "with sem:" entered, the fetcher is called; without a semaphore the fetcher
\* is called at once.
SemAcquire(w) ==
    /\ w \in WorkersAt("enter")
    /\ CanEnter(w.key)
    /\ provider_limits' = Acquired(provider_limits, w.key)
    /\ executor' = [executor EXCEPT
          !.workers = Swap(@, w, [w EXCEPT !.state = "fetching"])]
    /\ UNCHANGED << locations, forecast_extras_hourly, forecast_revisions,
                    tasks, main, clock, schema, dbRunVars, dbObsVars,
                    dbFcVars, forecast_errors, error_stats, pc, loc, ret,
                    calls >>

\* The fetcher returns or raises: the with block is left and the permit given
\* back.  A payload, an exception on the last attempt and an exception that is
\* not retryable end _fetch_one and free the thread; any other exception is
\* followed by time.sleep.
FetcherEnds(w, o) ==
    /\ w \in WorkersAt("fetching")
    /\ provider_limits' = Released(provider_limits, w.key)
    /\ executor' =
          IF \/ o.kind = "return"
             \/ LastAttempt(w.attempt)
             \/ ~IsRetryableError(o.e)
          THEN [executor EXCEPT !.workers = @ (-) SetToBag({w}),
                                !.done = @ + 1]
          ELSE [executor EXCEPT
                  !.workers = Swap(@, w, [w EXCEPT !.state = "sleeping"])]
    /\ UNCHANGED << locations, forecast_extras_hourly, forecast_revisions,
                    tasks, main, clock, schema, dbRunVars, dbObsVars,
                    dbFcVars, forecast_errors, error_stats, pc, loc, ret,
                    calls >>

\* time.sleep returns: the next iteration of the loop.
SleepEnds(w) ==
    /\ w \in WorkersAt("sleeping")
    /\ executor' = [executor EXCEPT
          !.workers = Swap(@, w, Worker(w.key, "enter", w.attempt + 1))]
    /\ UNCHANGED << provider_limits, locations, forecast_extras_hourly,
                    forecast_revisions, tasks, main, clock, schema, dbRunVars,
                    dbObsVars, dbFcVars, forecast_errors, error_stats, pc,
                    loc, ret, calls >>

\* The first five stations of config.STATIONS and three enabled sources, two
\* of Open-Meteo and one of another provider: fifteen tasks for twelve threads.
PoolStations == << "KNYC", "KMIA", "KMSY", "KPHL", "KMDW" >>
PoolSources ==
    { << "OME_BASE", "OME_GFS", x >> : x \in {"TOM", "WAPI", "VCR", "NWS"} }

PoolOutcomes ==
    { Returns(GoodPayload), Raises("HTTPError", 404, {}),
      Raises("Timeout", NULL, {"timed out"}) }

\* Attempts beyond the first of the tasks not yet ended.
Retrying ==
    LET ws == BagToSet(executor.workers)
        Extra(w) == (IF w.state = "sleeping" THEN w.attempt ELSE w.attempt - 1)
                       * CopiesIn(w, executor.workers)
        RECURSIVE Sum(_)
        Sum(S) == IF S = {} THEN 0
                  ELSE LET x == CHOOSE y \in S : TRUE
                       IN  Extra(x) + Sum(S \ {x})
    IN  Sum(ws)

InitPool == InitDb(TRUE, TRUE, TRUE)

NextPool ==
    \/ \E sources \in PoolSources : PoolSubmit(PoolStations, sources)
    \/ WorkerTakes
    \/ \E w \in WorkersAt("enter") : SemAcquire(w)
    \/ \E w \in WorkersAt("fetching") : \E o \in PoolOutcomes :
          /\ (o.kind = "raise" /\ IsRetryableError(o.e) /\ ~LastAttempt(w.attempt))
                => Retrying < MaxRetries
          /\ FetcherEnds(w, o)
    \/ \E w \in WorkersAt("sleeping") : SleepEnds(w)

SpecPool == InitPool /\ [][NextPool]_vars

\* Every fetcher invocation returns or raises (requests is called with a
\* timeout), every sleep ends, and a thread that can take a work item or a
\* permit does so.
SpecPoolFair == SpecPool /\ WF_vars(NextPool)

\* ----------------------------------------------------------------- pool claims
\* Fetcher invocations in flight for sources of one provider key.
InFlight(key) ==
    LET ws == {w \in WorkersAt("fetching") : w.key = key}
        RECURSIVE Count(_)
        Count(S) == IF S = {} THEN 0
                    ELSE LET x == CHOOSE y \in S : TRUE
                         IN  CopiesIn(x, executor.workers) + Count(S \ {x})
    IN  Count(ws)

\* C31: the invocations in flight for one provider key never exceed that
\* provider's cap (TOM 1, WAPI 2, VCR 2, NWS 4, OME 3), and the tasks running
\* never exceed the 12 threads of the pool.
ProviderCapsHold ==
    /\ \A key \in DOMAIN PROVIDER_LIMITS : InFlight(key) <= PROVIDER_LIMITS[key]
    /\ PROVIDER_LIMITS = [TOM |-> 1, WAPI |-> 2, VCR |-> 2, NWS |-> 4, OME |-> 3]
    /\ Busy <= 12

\* Every thread busy with work still queued, and both providers of the run
\* at their caps with a further task waiting for a permit.
ProviderCapsWitness ==
    /\ Busy = 12
    /\ executor.next < Len(executor.queue)
    /\ \E other \in {"TOM", "WAPI", "VCR", "NWS"} :
          \A key \in {"OME", other} :
             /\ InFlight(key) = PROVIDER_LIMITS[key]
             /\ \E w \in WorkersAt("enter") : w.key = key

AllDone == executor.queue # << >> /\ executor.done = Len(executor.queue)

\* C37: every submitted task ends; a permit is held exactly while a fetcher
\* invocation is in flight (not while waiting to enter, not during a sleep,
\* not after a return or an exception); and every semaphore is back at its
\* initial count once all tasks have ended.
PoolTerminates ==
    /\ <>[]AllDone
    /\ [](\A key \in DOMAIN PROVIDER_LIMITS :
             provider_limits[key] = PROVIDER_LIMITS[key] - InFlight(key))
    /\ [](AllDone => provider_limits = PROVIDER_LIMITS /\ Busy = 0)

\* All fifteen tasks ended and every permit is back.
PoolTerminatesWitness ==
    /\ AllDone
    /\ Len(executor.queue) > 12
    /\ provider_limits = PROVIDER_LIMITS


\* ------------------------------------------------ observation run of a process
\* The snapshots of (station, date) that belong to the run of process p.
OwnSnapshots(rows, runs, p, station_id, date) ==
    {r \in rows :
        /\ r.station_id = station_id
        /\ r.date = date
        /\ \E run \in runs : /\ run.run_id = r.run_id
                              /\ run.run_issued_at = obs_run_issued_at[p]}

\* C38: snapshot mode: the run timestamp of a process is fixed by its first
\* call and never changes, every call of the process writes under that run,
\* the run holds at most one row per (station, date), and a call for a
\* (station, date) the run already holds leaves that one row with the
\* incoming values and source, whatever the authority of the two sources.
OneRunPerProcess ==
    /\ [][\A p \in Procs :
             obs_run_issued_at[p] # NULL
                => obs_run_issued_at'[p] = obs_run_issued_at[p]]_vars
    /\ [][\A p \in Procs :
             SnapshotWriteBy(p) =>
                LET a == loc[p]
                    after == OwnSnapshots(observations_v2', observation_runs',
                                          p, a.station_id, a.date)
                IN  /\ a.run_issued_at = obs_run_issued_at[p]
                    /\ Cardinality(after) = 1
                    /\ \A r \in after : /\ r.observed_high = a.observed_high
                                         /\ r.observed_low = a.observed_low
                                         /\ r.source = a.source]_vars

\* A process has made its second call after the clock moved, and its one row
\* holds the fallback values over the product text of the official report
\* that the first call stored.
OneRunWitness ==
    \E p \in Procs :
        /\ ret[p].op = "upsert_observation"
        /\ obs_run_issued_at[p] # NULL
        /\ obs_run_issued_at[p] < clock
        /\ observation_runs = {[run_id |-> 1,
                                run_issued_at |-> obs_run_issued_at[p]]}
        /\ \E r \in observations_v2 :
              /\ observations_v2 = {r}
              /\ r.source = "NWS_OBS_FALLBACK"
              /\ r.observed_high = 294
              /\ r.raw_text = 7
              /\ r.fetched_at = clock

\* --------------------------------------- cli_observations: the CLI products
\* The text of a climate report, by what the parsers look at: the site token
\* it carries, the words after "CLIMATE SUMMARY FOR" (month, day, year; none
\* when the text has no such line) and the maximum and minimum it states
\* (NULL when no pattern finds one).
NoHeader == << >>

CliText(site, header, max, min) ==
    [site |-> site, header |-> header, max |-> max, min |-> min]

\* strptime %B: the full English month names.
MonthNumber(name) ==
    CASE name = "JANUARY" -> 1
      [] name = "FEBRUARY" -> 2
      [] OTHER -> NULL

\* Days of the month in 2026.
MonthDays(m) == IF m = 2 THEN 28 ELSE 31

\* _parse_cli_report_date: None without the line, None when strptime rejects
\* the words (an abbreviated month, a day the month does not have), else the
\* ISO date.
ParseCliReportDate(text) ==
    IF text.header = NoHeader THEN NULL
    ELSE LET m == MonthNumber(text.header[1])
             d == text.header[2]
             y == text.header[3]
         IN  IF m = NULL \/ d < 1 \/ d > MonthDays(m) THEN NULL
             ELSE y * 10000 + m * 100 + d

\* _cli_matches_site
CliMatchesSite(text, cli_site) == text.site = cli_site

\* _parse_cli_max_min: None unless both a maximum and a minimum are found.
NoTemps == << >>

ParseCliMaxMin(text) ==
    IF text.max = NULL \/ text.min = NULL THEN NoTemps
    ELSE << text.max, text.min >>

\* "if report_date and report_date != target_date: continue"
WrongDay(report_date, target_date) ==
    report_date # NULL /\ report_date # target_date

\* An entry of the product list: its id (NONE when it has none), its issuance
\* time, and what _fetch_product gives for it: the text, or an exception.
Product(id, issuance, fetch_raises, text) ==
    [id |-> id, issuance |-> issuance, fetch_raises |-> fetch_raises,
     text |-> text]

\* sorted(items, key=_issuance_sort_key, reverse=True): newest first, entries
\* of equal key in their original order.
RECURSIVE NewestFirst(_)
NewestFirst(items) ==
    IF items = << >> THEN << >>
    ELSE LET top == CHOOSE i \in 1..Len(items) :
                       /\ \A j \in 1..Len(items) :
                             items[j].issuance <= items[i].issuance
                       /\ \A j \in 1..(i - 1) :
                             items[j].issuance < items[i].issuance
             rest == [k \in 1..(Len(items) - 1) |->
                         IF k < top THEN items[k] ELSE items[k + 1]]
         IN  << items[top] >> \o NewestFirst(rest)

NoProduct == [id |-> NONE]

\* The loop over the newest products of one location id: the first product
\* that has an id, names the site, is not dated another day and states both
\* temperatures is accepted; a product that cannot be fetched ends the loop
\* with its exception.
RECURSIVE FirstAccepted(_, _, _)
FirstAccepted(items, cli_site, target_date) ==
    IF items = << >> THEN NoProduct
    ELSE LET it == Head(items)
             rest == Tail(items)
         IN  IF it.id = NONE
             THEN FirstAccepted(rest, cli_site, target_date)
             ELSE IF it.fetch_raises THEN NoProduct
             ELSE IF ~CliMatchesSite(it.text, cli_site)
             THEN FirstAccepted(rest, cli_site, target_date)
             ELSE IF WrongDay(ParseCliReportDate(it.text), target_date)
             THEN FirstAccepted(rest, cli_site, target_date)
             ELSE IF ParseCliMaxMin(it.text) = NoTemps
             THEN FirstAccepted(rest, cli_site, target_date)
             ELSE it

\* One pass of "for loc in loc_ids": a listing that raises or is empty, and a
\* loop that accepts nothing, send the code to the next location id.
TryLocation(listing, cli_site, target_date) ==
    IF listing.raises \/ listing.items = << >> THEN NoProduct
    ELSE FirstAccepted(NewestFirst(listing.items), cli_site, target_date)

\* The whole loop: the product of the first location id that yields one.
RECURSIVE CliLookup(_, _, _, _)
CliLookup(loc_ids, listings, cli_site, target_date) ==
    IF loc_ids = << >> THEN NoProduct
    ELSE LET hit == TryLocation(listings[Head(loc_ids)], cli_site, target_date)
         IN  IF hit # NoProduct THEN hit
             ELSE CliLookup(Tail(loc_ids), listings, cli_site, target_date)

\* Products of the kinds the loop tells apart, for Central Park: the report of
\* the target day, the report of the day before, a report whose line
\* abbreviates the month, a report without the line, one for another site, one
\* without a minimum, one without an id and one that cannot be fetched.
CliProducts ==
    { Product("p1", 3, FALSE, CliText("NYC", <<"JANUARY", 31, 2026>>, 301, 180)),
      Product("p2", 2, FALSE, CliText("NYC", <<"JANUARY", 30, 2026>>, 280, 160)),
      Product("p3", 2, FALSE, CliText("NYC", <<"JAN", 30, 2026>>, 281, 161)),
      Product("p4", 4, FALSE, CliText("NYC", NoHeader, 282, 162)),
      Product("p5", 4, FALSE, CliText("LGA", <<"JANUARY", 31, 2026>>, 310, 190)),
      Product("p6", 3, FALSE, CliText("NYC", <<"JANUARY", 31, 2026>>, 301, NULL)),
      Product(NONE, 5, FALSE, CliText("NYC", <<"JANUARY", 31, 2026>>, 299, 179)),
      Product("p8", 1, TRUE, CliText("", NoHeader, NULL, NULL)) }

MaxProducts == 2

CliListings ==
    { [raises |-> TRUE, items |-> << >>] } \cup
    { [raises |-> FALSE, items |-> s] :
         s \in UNION { [1..n -> CliProducts] : n \in 0..MaxProducts } }

CliLocIds == << "OKX", "NYC" >>

InitCli ==
    \E first \in CliListings, second \in CliListings, d \in ObsDates :
        InitDbArgs([op |-> "cli_lookup", loc_ids |-> CliLocIds,
                    listings |-> ("OKX" :> first @@ "NYC" :> second),
                    cli_site |-> "NYC", target_date |-> d])

ApplyCliLookup ==
    /\ pc[1] = "called"
    /\ loc[1].op = "cli_lookup"
    /\ ret' = [ret EXCEPT ![1] =
                  [op |-> "cli_lookup", target_date |-> loc[1].target_date,
                   accepted |-> CliLookup(loc[1].loc_ids, loc[1].listings,
                                          loc[1].cli_site,
                                          loc[1].target_date)]]
    /\ pc' = [pc EXCEPT ![1] = "idle"]
    /\ loc' = [loc EXCEPT ![1] = NoCall]
    /\ UNCHANGED << extVars, clock, schema, dbRunVars, dbObsVars, dbFcVars,
                    forecast_errors, error_stats, calls >>

NextCli == ApplyCliLookup

SpecCli == InitCli /\ [][NextCli]_vars

\* ------------------------------------------------------------ CLI date claim
\* The day a climate report is for, read as a person reads its line: also
\* with an abbreviated month; NULL when the text does not say.
ReportDay(text) ==
    IF text.header = NoHeader THEN NULL
    ELSE LET m == CASE text.header[1] \in {"JANUARY", "JAN"} -> 1
                    [] text.header[1] \in {"FEBRUARY", "FEB"} -> 2
                    [] OTHER -> NULL
         IN  IF m = NULL THEN NULL
             ELSE text.header[3] * 10000 + m * 100 + text.header[2]

GetCwa(lat, lon) == Raises("NameError", NULL, {})

\* cli_site: station["cli_site"], else the station id without its K.
CliSite(station) ==
    CASE station.station_id = "KNYC" -> "NYC"
      [] station.station_id = "KMDW" -> "MDW"
      [] OTHER -> station.station_id

\* _candidate_location_ids: the CWA, then the site, without repeats.
CandidateLocationIds(station, cwa) ==
    IF cwa = CliSite(station) THEN << cwa >> ELSE << cwa, CliSite(station) >>

\* The location ids whose product list is requested: up to and including the
\* one that yields the accepted product.
RECURSIVE TriedIds(_, _, _, _)
TriedIds(loc_ids, listings, cli_site, target_date) ==
    IF loc_ids = << >> THEN << >>
    ELSE IF TryLocation(listings[Head(loc_ids)], cli_site, target_date)
               # NoProduct
         THEN << Head(loc_ids) >>
         ELSE << Head(loc_ids) >>
                 \o TriedIds(Tail(loc_ids), listings, cli_site, target_date)

\* _fallback_station_obs: None without a temperature, else the highest and
\* the lowest of the day; _get_json raises when the request fails.
FallbackOutcomes ==
    { [kind |-> "none"], [kind |-> "temps", high |-> 294, low |-> 171],
      [kind |-> "raise"] }

NoStore == [source |-> NONE]

\* fetch_observations_for_station up to its write: what the CLI path and the
\* fallback come to.  The CLI path fails at once without lat/lon and when
\* _get_cwa raises; an accepted product is stored as NWS_CLI; after a failed
\* CLI path the fallback is called, and its temperatures are stored as
\* NWS_OBS_FALLBACK.
StationFetch(station, target_date, listings, fb) ==
    LET cwa == GetCwa(station.lat, station.lon)
        early == station.lat = NONE \/ station.lon = NONE \/ cwa.kind = "raise"
        loc_ids == IF early THEN << >>
                   ELSE CandidateLocationIds(station, cwa.raw)
        hit == CliLookup(loc_ids, listings, CliSite(station), target_date)
        tried == TriedIds(loc_ids, listings, CliSite(station), target_date)
        base == [station_id |-> station.station_id, tried |-> tried,
                 accepted |-> hit # NoProduct]
    IN  IF hit # NoProduct
        THEN base @@ [fallback |-> FALSE, raised |-> FALSE, result |-> TRUE,
                      store |-> [source |-> "NWS_CLI",
                                 vals |-> << hit.text.max, hit.text.min,
                                             hit.issuance, hit.id >>]]
        ELSE IF fb.kind = "raise"
        THEN base @@ [fallback |-> TRUE, raised |-> TRUE, result |-> FALSE,
                      store |-> NoStore]
        ELSE IF fb.kind = "none"
        THEN base @@ [fallback |-> TRUE, raised |-> FALSE, result |-> FALSE,
                      store |-> NoStore]
        ELSE base @@ [fallback |-> TRUE, raised |-> FALSE, result |-> TRUE,
                      store |-> [source |-> "NWS_OBS_FALLBACK",
                                 vals |-> << fb.high, fb.low, NULL, NULL >>]]

\* The arguments of the upsert_observation call of process 1.
StoreArgs(station_id, target_date, store) ==
    [station_id |-> station_id, date |-> target_date,
     observed_high |-> store.vals[1], observed_low |-> store.vals[2],
     issued_at |-> store.vals[3], raw_text |-> store.vals[4],
     source |-> store.source, run_issued_at |-> GetObsRunIssuedAt(1),
     now |-> clock,
     existing_source |-> SelectExistingSource(station_id, target_date)]

\* upsert_observation run to its end by the one process of the loop.
StoreObservation(a) ==
    /\ obs_run_issued_at' = [obs_run_issued_at EXCEPT ![1] = a.run_issued_at]
    /\ IF schema.has_new
       THEN LET run_id == ObsRunIdFor(a.run_issued_at)
            IN  /\ observation_runs' = observation_runs \cup
                       {[run_id |-> run_id, run_issued_at |-> a.run_issued_at]}
                /\ obs_seq' = IF run_id > obs_seq THEN run_id ELSE obs_seq
                /\ observations_v2' = InsertSnapshot(observations_v2, run_id, a)
                /\ UNCHANGED observations
       ELSE /\ observations' =
                  IF IsDowngrade(a.existing_source, a.source)
                  THEN TouchObservation(observations, a)
                  ELSE InsertObservation(observations, a)
            /\ UNCHANGED << obs_seq, observation_runs, observations_v2 >>

\* config.STATIONS, the first and the fifth.
ObsFetchStations == << "KNYC", "KMDW" >>

\* fetch_observations(target_date) called: any_ok = False, the loop begins.
FetchObservationsBegin(target_date, caller) ==
    /\ pc[1] = "idle"
    /\ calls.obs < MaxObsCalls
    /\ pc' = [pc EXCEPT ![1] = "fetch_loop"]
    /\ loc' = [loc EXCEPT ![1] =
                  [op |-> "fetch_observations", target_date |-> target_date,
                   todo |-> ObsFetchStations, attempted |-> << >>,
                   any_ok |-> FALSE, caller |-> caller, last |-> NoCall]]
    /\ calls' = [calls EXCEPT !.obs = @ + 1]
    /\ UNCHANGED << extVars, clock, schema, dbRunVars, dbObsVars, dbFcVars,
                    forecast_errors, error_stats, ret >>

\* One iteration: fetch_observations_for_station for the next station, with
\* its upsert_location and its upsert_observation; an exception it raises is
\* printed and the loop goes on.
FetchObservationsStep(listings, fb) ==
    /\ pc[1] = "fetch_loop"
    /\ loc[1].todo # << >>
    /\ LET station == StationConfig(Head(loc[1].todo))
           out == StationFetch(station, loc[1].target_date, listings, fb)
       IN  /\ locations' = UpsertLocationRow(locations, LocationParams(station))
           /\ IF out.store = NoStore
              THEN UNCHANGED dbObsVars
              ELSE StoreObservation(StoreArgs(station.station_id,
                                              loc[1].target_date, out.store))
           /\ loc' = [loc EXCEPT ![1] =
                  [@ EXCEPT !.todo = Tail(@),
                            !.attempted = Append(@, station.station_id),
                            !.any_ok = @ \/ (~out.raised /\ out.result),
                            !.last = out]]
    /\ UNCHANGED << forecast_extras_hourly, forecast_revisions, tasks, main,
                    poolVars, clock, schema, dbRunVars, dbFcVars,
                    forecast_errors, error_stats, pc, ret, calls >>

\* The loop is over: return any_ok.  Called from night.main, score_day
\* follows when any_ok is true.
FetchObservationsReturn ==
    /\ pc[1] = "fetch_loop"
    /\ loc[1].todo = << >>
    /\ ret' = [ret EXCEPT ![1] =
          IF loc[1].caller = "night"
          THEN [op |-> "night", raised |-> FALSE,
                attempted |-> loc[1].attempted, ok_any |-> loc[1].any_ok,
                scored |-> loc[1].any_ok]
          ELSE [op |-> "fetch_observations",
                attempted |-> loc[1].attempted, result |-> loc[1].any_ok]]
    /\ pc' = [pc EXCEPT ![1] = "idle"]
    /\ loc' = [loc EXCEPT ![1] = NoCall]
    /\ UNCHANGED << extVars, clock, schema, dbRunVars, dbObsVars, dbFcVars,
                    forecast_errors, error_stats, calls >>

\* The names db.py defines at its top level.
DbNames ==
    { "_db_url", "get_conn", "init_db", "_has_table", "upsert_location",
      "_obs_priority", "_get_obs_run_issued_at",
      "get_or_create_observation_run", "upsert_observation",
      "get_or_create_forecast_run", "bulk_upsert_forecasts_daily",
      "bulk_upsert_forecast_extras_hourly", "bulk_upsert_forecast_values",
      "upsert_forecast_value", "build_errors_for_date", "_percentile",
      "compute_revisions_for_run", "update_error_stats", "utc_now_z" }

\* score.py: from db import get_conn, upsert_score, _placeholder
ScoreImports == { "get_conn", "upsert_score", "_placeholder" }

\* "from score import score_day" at the top of night.py runs score.py, whose
\* import from db raises ImportError for a name db does not define.
ImportSucceeds(names, module_names) == names \subseteq module_names

\* (date.today() - timedelta(days=1)) on the dates of the model.
DayBefore(today) ==
    IF today % 100 > 1 THEN today - 1
    ELSE LET m == ((today \div 100) % 100) - 1
         IN  (today \div 10000) * 10000 + m * 100 + MonthDays(m)

NightDays == {20260201}

\* python night.py: the imports, then main: init_db, fetch_observations for
\* yesterday, score_day when it returned true.
Night(today) ==
    /\ pc[1] = "idle"
    /\ calls.obs < MaxObsCalls
    /\ IF ImportSucceeds(ScoreImports, DbNames)
       THEN /\ pc' = [pc EXCEPT ![1] = "fetch_loop"]
            /\ loc' = [loc EXCEPT ![1] =
                  [op |-> "fetch_observations",
                   target_date |-> DayBefore(today),
                   todo |-> ObsFetchStations, attempted |-> << >>,
                   any_ok |-> FALSE, caller |-> "night", last |-> NoCall]]
            /\ UNCHANGED ret
       ELSE /\ ret' = [ret EXCEPT ![1] =
                  [op |-> "night", raised |-> TRUE, attempted |-> << >>,
                   ok_any |-> FALSE, scored |-> FALSE]]
            /\ UNCHANGED << pc, loc >>
    /\ calls' = [calls EXCEPT !.obs = @ + 1]
    /\ UNCHANGED << extVars, clock, schema, dbRunVars, dbObsVars, dbFcVars,
                    forecast_errors, error_stats >>

\* Both schemas; the product lists the CLI path would be given.
ObsFetchListings ==
    { [l \in {"OKX", "NYC", "MDW"} |-> x] :
         x \in { [raises |-> TRUE, items |-> << >>],
                 [raises |-> FALSE,
                  items |-> << Product("p1", 3, FALSE,
                       CliText("NYC", <<"JANUARY", 31, 2026>>, 301, 180)) >>] } }

InitObsFetch == \E has_new \in BOOLEAN : InitDb(has_new, has_new, TRUE)

NextObsFetch ==
    \/ Tick
    \/ \E today \in NightDays : Night(today)
    \/ \E d \in ObsDates : FetchObservationsBegin(d, "direct")
    \/ \E l \in ObsFetchListings, fb \in FallbackOutcomes :
          FetchObservationsStep(l, fb)
    \/ FetchObservationsReturn

SpecObsFetch == InitObsFetch /\ [][NextObsFetch]_vars

\* ----------------------------------------------------- observation fetch claims
\* One call of fetch_observations_for_station has just ended.
StationStep ==
    /\ pc[1] = "fetch_loop"
    /\ pc'[1] = "fetch_loop"
    /\ Len(loc'[1].todo) < Len(loc[1].todo)

ObsRowsOf(v2, legacy) == v2 \cup legacy

\* C39: a call stores at most one observation and returns True exactly when
\* it stored one; the CLI path goes over the candidate location ids first and
\* the fallback is called only after it failed for every one of them (the
\* station id without its K is a candidate of every station); the stored
\* source is NWS_CLI for an accepted product and NWS_OBS_FALLBACK otherwise;
\* with no temperatures from either path nothing is stored.
CliFirstThenFallback ==
    [][StationStep =>
          LET out == loc'[1].last
              station == StationConfig(out.station_id)
              written == ObsRowsOf(observations_v2', observations')
                            \ ObsRowsOf(observations_v2, observations)
          IN  /\ Cardinality(written) <= 1
              /\ out.store = NoStore => written = {}
              /\ ~out.raised => (out.result <=> out.store # NoStore)
              /\ out.fallback =>
                    \E i \in DOMAIN out.tried : out.tried[i] = CliSite(station)
              /\ out.store # NoStore =>
                    out.store.source = IF out.accepted THEN "NWS_CLI"
                                       ELSE "NWS_OBS_FALLBACK"
      ]_vars

====
